---- MODULE Spec2Model ----
(***************************************************************************)
(* A model of the webcrawler repository: the per-item crawl pipeline of    *)
(* DatoidCrawler (crawl / crawl_page) with its persistence through          *)
(* DBManager, the VirusTotal analysis task (analyse_sample, testFile,      *)
(* analyseFile, dbVTManager), DBManager._get_or_create as run by parallel   *)
(* crawl invocations, ConnectionPool.get_connection as used by several      *)
(* threads, and the functions of the pipeline that are checked on their     *)
(* own (Downloader's file naming and size gate, get_parsed_file_info,       *)
(* save_hashes).                                                            *)
(*                                                                          *)
(* The browser, the network, the file system and the databases are the      *)
(* environment: every call into them picks its outcome (success, timeout,   *)
(* other exception) with \E, and a variable records which faults happened.  *)
(***************************************************************************)
EXTENDS Integers, Sequences, FiniteSets

\* ------------------------------------------------------------------ bounds
\* A site has at most MaxPages result pages ...
MaxPages == 2
\* ... and a crawl meets at most MaxItems items in total over its pages.
MaxItems == 2
\* The environment makes at most MaxFaults calls fail during one run.
MaxFaults == 2
\* A completed verdict lists at most MaxEngines antivirus engines.
MaxEngines == 2
\* A crawl invocation makes at most MaxCalls get-or-create calls.
MaxCalls == 2
\* A size string given to a call on its own has at most MaxSizeLen characters.
MaxSizeLen == 5
\* An item's text given to a call on its own has at most MaxInfoLen characters.
MaxInfoLen == 5
\* A Content-Disposition header given to a call on its own has at most
\* MaxHeaderLen characters, a URL at most MaxUrlLen.
MaxHeaderLen == 4
MaxUrlLen == 2
\* pyodbc.connect makes at most MaxConnects connections for one pool.
MaxConnects == 6
\* A download folder given to a call on its own holds archives numbered up to
\* MaxCounter: base.zip, base(1).zip ... base(MaxCounter).zip.
MaxCounter == 2
\* Each of the crawl invocations that run in parallel downloads at most
\* MaxDownloads archives and saves at most MaxSaves hashes.
MaxDownloads == 2
MaxSaves == 1

\* ------------------------------------------------------- program constants
\* config.Settings.max_file_size_mb (default 20.0)
max_file_size_mb == 20
\* config.Settings.vt_max_wait_time and vt_analysis_check_interval
vt_max_wait_time == 600
vt_analysis_check_interval == 10

\* Python's None, for string-valued variables; an absent path or size string is
\* the empty sequence and an absent row identifier is 0 (identifiers start at 1).
NULL == "NULL"
NoPath == << >>

\* ----------------------------------------------------------------- SizeGate
\* A size string is a sequence of characters; the unit markers "GB" and "MB"
\* are kept as single tokens, which is all the substring tests look at. A
\* character outside ASCII is written as the token of its code point, "U+"
\* and at least four hexadecimal digits.

\* str.isdecimal(): the decimal digits of every script, which str.isdigit()
\* takes and float() reads by their value; DecimalDigits[v + 1] are the
\* characters of value v.
DecimalDigits ==
  <<
    \* digit zero
    {
      "0", "U+0660", "U+06F0", "U+07C0", "U+0966", "U+09E6", "U+0A66",
      "U+0AE6", "U+0B66", "U+0BE6", "U+0C66", "U+0CE6", "U+0D66", "U+0DE6",
      "U+0E50", "U+0ED0", "U+0F20", "U+1040", "U+1090", "U+17E0", "U+1810",
      "U+1946", "U+19D0", "U+1A80", "U+1A90", "U+1B50", "U+1BB0", "U+1C40",
      "U+1C50", "U+A620", "U+A8D0", "U+A900", "U+A9D0", "U+A9F0", "U+AA50",
      "U+ABF0", "U+FF10", "U+104A0", "U+10D30", "U+11066", "U+110F0",
      "U+11136", "U+111D0", "U+112F0", "U+11450", "U+114D0", "U+11650",
      "U+116C0", "U+11730", "U+118E0", "U+11950", "U+11C50", "U+11D50",
      "U+11DA0", "U+16A60", "U+16AC0", "U+16B50", "U+1D7CE", "U+1D7D8",
      "U+1D7E2", "U+1D7EC", "U+1D7F6", "U+1E140", "U+1E2F0", "U+1E950",
      "U+1FBF0" },
    \* digit one
    {
      "1", "U+0661", "U+06F1", "U+07C1", "U+0967", "U+09E7", "U+0A67",
      "U+0AE7", "U+0B67", "U+0BE7", "U+0C67", "U+0CE7", "U+0D67", "U+0DE7",
      "U+0E51", "U+0ED1", "U+0F21", "U+1041", "U+1091", "U+17E1", "U+1811",
      "U+1947", "U+19D1", "U+1A81", "U+1A91", "U+1B51", "U+1BB1", "U+1C41",
      "U+1C51", "U+A621", "U+A8D1", "U+A901", "U+A9D1", "U+A9F1", "U+AA51",
      "U+ABF1", "U+FF11", "U+104A1", "U+10D31", "U+11067", "U+110F1",
      "U+11137", "U+111D1", "U+112F1", "U+11451", "U+114D1", "U+11651",
      "U+116C1", "U+11731", "U+118E1", "U+11951", "U+11C51", "U+11D51",
      "U+11DA1", "U+16A61", "U+16AC1", "U+16B51", "U+1D7CF", "U+1D7D9",
      "U+1D7E3", "U+1D7ED", "U+1D7F7", "U+1E141", "U+1E2F1", "U+1E951",
      "U+1FBF1" },
    \* digit two
    {
      "2", "U+0662", "U+06F2", "U+07C2", "U+0968", "U+09E8", "U+0A68",
      "U+0AE8", "U+0B68", "U+0BE8", "U+0C68", "U+0CE8", "U+0D68", "U+0DE8",
      "U+0E52", "U+0ED2", "U+0F22", "U+1042", "U+1092", "U+17E2", "U+1812",
      "U+1948", "U+19D2", "U+1A82", "U+1A92", "U+1B52", "U+1BB2", "U+1C42",
      "U+1C52", "U+A622", "U+A8D2", "U+A902", "U+A9D2", "U+A9F2", "U+AA52",
      "U+ABF2", "U+FF12", "U+104A2", "U+10D32", "U+11068", "U+110F2",
      "U+11138", "U+111D2", "U+112F2", "U+11452", "U+114D2", "U+11652",
      "U+116C2", "U+11732", "U+118E2", "U+11952", "U+11C52", "U+11D52",
      "U+11DA2", "U+16A62", "U+16AC2", "U+16B52", "U+1D7D0", "U+1D7DA",
      "U+1D7E4", "U+1D7EE", "U+1D7F8", "U+1E142", "U+1E2F2", "U+1E952",
      "U+1FBF2" },
    \* digit three
    {
      "3", "U+0663", "U+06F3", "U+07C3", "U+0969", "U+09E9", "U+0A69",
      "U+0AE9", "U+0B69", "U+0BE9", "U+0C69", "U+0CE9", "U+0D69", "U+0DE9",
      "U+0E53", "U+0ED3", "U+0F23", "U+1043", "U+1093", "U+17E3", "U+1813",
      "U+1949", "U+19D3", "U+1A83", "U+1A93", "U+1B53", "U+1BB3", "U+1C43",
      "U+1C53", "U+A623", "U+A8D3", "U+A903", "U+A9D3", "U+A9F3", "U+AA53",
      "U+ABF3", "U+FF13", "U+104A3", "U+10D33", "U+11069", "U+110F3",
      "U+11139", "U+111D3", "U+112F3", "U+11453", "U+114D3", "U+11653",
      "U+116C3", "U+11733", "U+118E3", "U+11953", "U+11C53", "U+11D53",
      "U+11DA3", "U+16A63", "U+16AC3", "U+16B53", "U+1D7D1", "U+1D7DB",
      "U+1D7E5", "U+1D7EF", "U+1D7F9", "U+1E143", "U+1E2F3", "U+1E953",
      "U+1FBF3" },
    \* digit four
    {
      "4", "U+0664", "U+06F4", "U+07C4", "U+096A", "U+09EA", "U+0A6A",
      "U+0AEA", "U+0B6A", "U+0BEA", "U+0C6A", "U+0CEA", "U+0D6A", "U+0DEA",
      "U+0E54", "U+0ED4", "U+0F24", "U+1044", "U+1094", "U+17E4", "U+1814",
      "U+194A", "U+19D4", "U+1A84", "U+1A94", "U+1B54", "U+1BB4", "U+1C44",
      "U+1C54", "U+A624", "U+A8D4", "U+A904", "U+A9D4", "U+A9F4", "U+AA54",
      "U+ABF4", "U+FF14", "U+104A4", "U+10D34", "U+1106A", "U+110F4",
      "U+1113A", "U+111D4", "U+112F4", "U+11454", "U+114D4", "U+11654",
      "U+116C4", "U+11734", "U+118E4", "U+11954", "U+11C54", "U+11D54",
      "U+11DA4", "U+16A64", "U+16AC4", "U+16B54", "U+1D7D2", "U+1D7DC",
      "U+1D7E6", "U+1D7F0", "U+1D7FA", "U+1E144", "U+1E2F4", "U+1E954",
      "U+1FBF4" },
    \* digit five
    {
      "5", "U+0665", "U+06F5", "U+07C5", "U+096B", "U+09EB", "U+0A6B",
      "U+0AEB", "U+0B6B", "U+0BEB", "U+0C6B", "U+0CEB", "U+0D6B", "U+0DEB",
      "U+0E55", "U+0ED5", "U+0F25", "U+1045", "U+1095", "U+17E5", "U+1815",
      "U+194B", "U+19D5", "U+1A85", "U+1A95", "U+1B55", "U+1BB5", "U+1C45",
      "U+1C55", "U+A625", "U+A8D5", "U+A905", "U+A9D5", "U+A9F5", "U+AA55",
      "U+ABF5", "U+FF15", "U+104A5", "U+10D35", "U+1106B", "U+110F5",
      "U+1113B", "U+111D5", "U+112F5", "U+11455", "U+114D5", "U+11655",
      "U+116C5", "U+11735", "U+118E5", "U+11955", "U+11C55", "U+11D55",
      "U+11DA5", "U+16A65", "U+16AC5", "U+16B55", "U+1D7D3", "U+1D7DD",
      "U+1D7E7", "U+1D7F1", "U+1D7FB", "U+1E145", "U+1E2F5", "U+1E955",
      "U+1FBF5" },
    \* digit six
    {
      "6", "U+0666", "U+06F6", "U+07C6", "U+096C", "U+09EC", "U+0A6C",
      "U+0AEC", "U+0B6C", "U+0BEC", "U+0C6C", "U+0CEC", "U+0D6C", "U+0DEC",
      "U+0E56", "U+0ED6", "U+0F26", "U+1046", "U+1096", "U+17E6", "U+1816",
      "U+194C", "U+19D6", "U+1A86", "U+1A96", "U+1B56", "U+1BB6", "U+1C46",
      "U+1C56", "U+A626", "U+A8D6", "U+A906", "U+A9D6", "U+A9F6", "U+AA56",
      "U+ABF6", "U+FF16", "U+104A6", "U+10D36", "U+1106C", "U+110F6",
      "U+1113C", "U+111D6", "U+112F6", "U+11456", "U+114D6", "U+11656",
      "U+116C6", "U+11736", "U+118E6", "U+11956", "U+11C56", "U+11D56",
      "U+11DA6", "U+16A66", "U+16AC6", "U+16B56", "U+1D7D4", "U+1D7DE",
      "U+1D7E8", "U+1D7F2", "U+1D7FC", "U+1E146", "U+1E2F6", "U+1E956",
      "U+1FBF6" },
    \* digit seven
    {
      "7", "U+0667", "U+06F7", "U+07C7", "U+096D", "U+09ED", "U+0A6D",
      "U+0AED", "U+0B6D", "U+0BED", "U+0C6D", "U+0CED", "U+0D6D", "U+0DED",
      "U+0E57", "U+0ED7", "U+0F27", "U+1047", "U+1097", "U+17E7", "U+1817",
      "U+194D", "U+19D7", "U+1A87", "U+1A97", "U+1B57", "U+1BB7", "U+1C47",
      "U+1C57", "U+A627", "U+A8D7", "U+A907", "U+A9D7", "U+A9F7", "U+AA57",
      "U+ABF7", "U+FF17", "U+104A7", "U+10D37", "U+1106D", "U+110F7",
      "U+1113D", "U+111D7", "U+112F7", "U+11457", "U+114D7", "U+11657",
      "U+116C7", "U+11737", "U+118E7", "U+11957", "U+11C57", "U+11D57",
      "U+11DA7", "U+16A67", "U+16AC7", "U+16B57", "U+1D7D5", "U+1D7DF",
      "U+1D7E9", "U+1D7F3", "U+1D7FD", "U+1E147", "U+1E2F7", "U+1E957",
      "U+1FBF7" },
    \* digit eight
    {
      "8", "U+0668", "U+06F8", "U+07C8", "U+096E", "U+09EE", "U+0A6E",
      "U+0AEE", "U+0B6E", "U+0BEE", "U+0C6E", "U+0CEE", "U+0D6E", "U+0DEE",
      "U+0E58", "U+0ED8", "U+0F28", "U+1048", "U+1098", "U+17E8", "U+1818",
      "U+194E", "U+19D8", "U+1A88", "U+1A98", "U+1B58", "U+1BB8", "U+1C48",
      "U+1C58", "U+A628", "U+A8D8", "U+A908", "U+A9D8", "U+A9F8", "U+AA58",
      "U+ABF8", "U+FF18", "U+104A8", "U+10D38", "U+1106E", "U+110F8",
      "U+1113E", "U+111D8", "U+112F8", "U+11458", "U+114D8", "U+11658",
      "U+116C8", "U+11738", "U+118E8", "U+11958", "U+11C58", "U+11D58",
      "U+11DA8", "U+16A68", "U+16AC8", "U+16B58", "U+1D7D6", "U+1D7E0",
      "U+1D7EA", "U+1D7F4", "U+1D7FE", "U+1E148", "U+1E2F8", "U+1E958",
      "U+1FBF8" },
    \* digit nine
    {
      "9", "U+0669", "U+06F9", "U+07C9", "U+096F", "U+09EF", "U+0A6F",
      "U+0AEF", "U+0B6F", "U+0BEF", "U+0C6F", "U+0CEF", "U+0D6F", "U+0DEF",
      "U+0E59", "U+0ED9", "U+0F29", "U+1049", "U+1099", "U+17E9", "U+1819",
      "U+194F", "U+19D9", "U+1A89", "U+1A99", "U+1B59", "U+1BB9", "U+1C49",
      "U+1C59", "U+A629", "U+A8D9", "U+A909", "U+A9D9", "U+A9F9", "U+AA59",
      "U+ABF9", "U+FF19", "U+104A9", "U+10D39", "U+1106F", "U+110F9",
      "U+1113F", "U+111D9", "U+112F9", "U+11459", "U+114D9", "U+11659",
      "U+116C9", "U+11739", "U+118E9", "U+11959", "U+11C59", "U+11D59",
      "U+11DA9", "U+16A69", "U+16AC9", "U+16B59", "U+1D7D7", "U+1D7E1",
      "U+1D7EB", "U+1D7F5", "U+1D7FF", "U+1E149", "U+1E2F9", "U+1E959",
      "U+1FBF9" } >>

isdecimal == UNION {DecimalDigits[v] : v \in 1..10}

\* The characters for which str.isdigit() is True and str.isdecimal() is not
\* (superscripts, circled digits and the like); float() does not read them.
NonDecimalDigits ==
  {
    "U+00B2", "U+00B3", "U+00B9", "U+1369", "U+136A", "U+136B", "U+136C",
    "U+136D", "U+136E", "U+136F", "U+1370", "U+1371", "U+19DA", "U+2070",
    "U+2074", "U+2075", "U+2076", "U+2077", "U+2078", "U+2079", "U+2080",
    "U+2081", "U+2082", "U+2083", "U+2084", "U+2085", "U+2086", "U+2087",
    "U+2088", "U+2089", "U+2460", "U+2461", "U+2462", "U+2463", "U+2464",
    "U+2465", "U+2466", "U+2467", "U+2468", "U+2474", "U+2475", "U+2476",
    "U+2477", "U+2478", "U+2479", "U+247A", "U+247B", "U+247C", "U+2488",
    "U+2489", "U+248A", "U+248B", "U+248C", "U+248D", "U+248E", "U+248F",
    "U+2490", "U+24EA", "U+24F5", "U+24F6", "U+24F7", "U+24F8", "U+24F9",
    "U+24FA", "U+24FB", "U+24FC", "U+24FD", "U+24FF", "U+2776", "U+2777",
    "U+2778", "U+2779", "U+277A", "U+277B", "U+277C", "U+277D", "U+277E",
    "U+2780", "U+2781", "U+2782", "U+2783", "U+2784", "U+2785", "U+2786",
    "U+2787", "U+2788", "U+278A", "U+278B", "U+278C", "U+278D", "U+278E",
    "U+278F", "U+2790", "U+2791", "U+2792", "U+10A40", "U+10A41", "U+10A42",
    "U+10A43", "U+10E60", "U+10E61", "U+10E62", "U+10E63", "U+10E64",
    "U+10E65", "U+10E66", "U+10E67", "U+10E68", "U+11052", "U+11053",
    "U+11054", "U+11055", "U+11056", "U+11057", "U+11058", "U+11059",
    "U+1105A", "U+1F100", "U+1F101", "U+1F102", "U+1F103", "U+1F104",
    "U+1F105", "U+1F106", "U+1F107", "U+1F108", "U+1F109", "U+1F10A" }

\* str.isdigit()
isdigit == isdecimal \cup NonDecimalDigits

DigitVal(c) == (CHOOSE v \in 1..10 : c \in DecimalDigits[v]) - 1

Contains(s, tok) == \E i \in 1..Len(s) : s[i] = tok

\* line 129: c.isdigit() or c == "."
IsNumChar(c) == c \in isdigit \/ c = "."

\* "".join(c for c in file_size if c.isdigit() or c == ".")
size_str(file_size) == SelectSeq(file_size, IsNumChar)

DotCount(s) == Cardinality({i \in 1..Len(s) : s[i] = "."})

\* float(s) raises ValueError unless s is decimal digits with at most one dot
\* and at least one digit.
FloatParses(s) ==
  /\ DotCount(s) <= 1 /\ Len(s) - DotCount(s) >= 1
  /\ \A i \in 1..Len(s) : s[i] \notin NonDecimalDigits

DotPos(s) == IF DotCount(s) = 0 THEN Len(s) + 1
             ELSE CHOOSE i \in 1..Len(s) : s[i] = "."

RECURSIVE IntValue(_)
IntValue(s) == IF Len(s) = 0 THEN 0
               ELSE 10 * IntValue(SubSeq(s, 1, Len(s) - 1)) + DigitVal(s[Len(s)])

\* (a faulty variant of FloatGreater: a size equal to the limit is over it)
FloatGreaterOrEqual(s, limit) ==
  IntValue(SubSeq(s, 1, DotPos(s) - 1)) >= limit

\* The digits of a whole part without its leading zeros, and the number of
\* decimal digits of a positive integer.
StripZeros(s) ==
  LET nonzero == {i \in 1..Len(s) : DigitVal(s[i]) # 0}
  IN  IF nonzero = {} THEN << >>
      ELSE SubSeq(s, CHOOSE i \in nonzero : \A j \in nonzero : i <= j, Len(s))

RECURSIVE DigitCount(_)
DigitCount(n) == IF n < 10 THEN 1 ELSE 1 + DigitCount(n \div 10)

\* The whole part compared with a positive integer: -1, 0 or 1. A longer
\* digit string is larger, so no value beyond the limit's size is computed.
CompareWhole(w, limit) ==
  LET d == StripZeros(w)
  IN  IF Len(d) > DigitCount(limit) THEN 1
      ELSE IF Len(d) < DigitCount(limit) THEN -1
      ELSE IF IntValue(d) > limit THEN 1
      ELSE IF IntValue(d) < limit THEN -1
      ELSE 0

\* The binary exponent of a positive integer: 2^e <= n < 2^(e+1).
RECURSIVE Exponent(_)
Exponent(n) == IF n < 2 THEN 0 ELSE 1 + Exponent(n \div 2)

\* Half of the decimal fraction 0.d, as a digit sequence one digit longer:
\* long division by 2, the carry into a digit being the remainder of the
\* digit before it.
Halve(d) ==
  SubSeq([i \in 1..(Len(d) + 1) |->
            ((IF i = 1 THEN 0 ELSE d[i - 1] % 2) * 10
               + (IF i <= Len(d) THEN d[i] ELSE 0)) \div 2],
         1, Len(d) + 1)

\* 0.d halved k times
RECURSIVE HalveTimes(_, _)
HalveTimes(d, k) == IF k = 0 THEN d ELSE HalveTimes(Halve(d), k - 1)

\* The fractional digits of 2^-n, n >= 1; 2^-25 and 2^-49 are worked out
\* once and the others from the nearest of them.
TwoToMinus25 == HalveTimes(<<5>>, 24)
TwoToMinus49 == HalveTimes(TwoToMinus25, 24)
TwoToMinus(n) ==
  IF n >= 49 THEN HalveTimes(TwoToMinus49, n - 49)
  ELSE IF n >= 25 THEN HalveTimes(TwoToMinus25, n - 25)
  ELSE HalveTimes(<<5>>, n - 1)

\* float() gives the double nearest to the decimal text, a tie going to the
\* even mantissa. Doubles carry 53 bits, so above a whole number limit with
\* 2^e <= limit < 2^(e+1) the next double is limit + 2^(e-52): a text whose
\* value is at most limit + 2^(e-53) is rounded to limit itself.
half_ulp(limit) == TwoToMinus(53 - Exponent(limit))

\* the fraction 0.frac (digit characters) is larger than 0.h (digit values):
\* at the first place where they differ, h being continued with zeros, the
\* digit of frac is the larger
FracGreater(frac, h) ==
  LET place(j) == IF j <= Len(h) THEN h[j] ELSE 0
  IN  \E i \in 1..Len(frac) :
        /\ DigitVal(frac[i]) > place(i)
        /\ \A j \in 1..(i - 1) : DigitVal(frac[j]) = place(j)

\* float(s) > limit for a whole-number limit (1 <= limit < 2^31): the whole
\* part is larger, or it is equal and the fraction is more than half the
\* spacing of the doubles above the limit.
FloatGreater(s, limit) ==
  LET whole == SubSeq(s, 1, DotPos(s) - 1)
      frac  == SubSeq(s, DotPos(s) + 1, Len(s))
  IN  \/ CompareWhole(whole, limit) = 1
      \/ /\ CompareWhole(whole, limit) = 0
         /\ FracGreater(frac, half_ulp(limit))

\* (a faulty variant of validate_file_size: the gigabyte test is missing)
validate_file_size_mb_only(file_size, max) ==
  IF Contains(file_size, "MB")
     /\ FloatParses(size_str(file_size))
     /\ FloatGreater(size_str(file_size), max)
  THEN "reject" ELSE "accept"

\* (a faulty variant of validate_file_size: a size that cannot be parsed is
\* rejected)
validate_file_size_fail_closed(file_size, max) ==
  IF Contains(file_size, "GB") THEN "reject"
  ELSE IF Contains(file_size, "MB")
       THEN IF FloatParses(size_str(file_size))
            THEN IF FloatGreater(size_str(file_size), max)
                 THEN "reject" ELSE "accept"
            ELSE "reject"
       ELSE "accept"

\* Downloader.validate_file_size, max being settings.max_file_size_mb:
\* "reject" stands for raising DownloadFileTooLargeError, "accept" for
\* returning True.
validate_file_size(file_size, max) ==
  IF Contains(file_size, "GB") THEN "reject"
  ELSE IF Contains(file_size, "MB")
       THEN IF FloatParses(size_str(file_size))
            THEN IF FloatGreater(size_str(file_size), max)
                 THEN "reject" ELSE "accept"
            ELSE "accept"
       ELSE "accept"

\* exceptions.DownloadFileTooLargeError(file_size, max_size): what it carries
DownloadFileTooLargeError(declared, max_size) ==
  [file_size |-> declared, max_size |-> max_size]

\* lines 125 and 135: the exception validate_file_size raises for file_size
\* (NULL: it returns True)
size_error(file_size, max) ==
  IF validate_file_size(file_size, max) = "reject"
  THEN DownloadFileTooLargeError(file_size, max)
  ELSE NULL

\* ---------------------------------------------------------------- variables
VARIABLES
  \* the site: its number of result pages (page k < nPages shows the next-page
  \* affordance, page nPages does not)
  nPages,
  \* DatoidCrawler.crawl: position, page counter, pages handed to driver.get,
  \* how the call ended ("running", "returned", "raised")
  pc, page, visited, outcome,
  \* DatoidCrawler.crawl_page: items found on the page, items finished, and the
  \* per-item locals of lines 136-139
  nItems, index, file_size, size_exception, timeout_exception,
  download_exception, download_info, download_path, hash_value,
  \* the browser: open window handles in window_handles order (each tagged with
  \* what it shows), the current one (0: none), whether the session was quit
  handles, cur, quit,
  \* the relational store (the committed rows of the Crack, Error and Hash
  \* tables), the rows the pooled connection has inserted and not committed,
  \* the download folder and the hash sink file
  cracks, errors, hashes, pending, files, sink,
  \* history kept for the properties: the steps of the current item, the stage
  \* it ended in, one record per finished item, how the page loop was left
  \* ("none", "last_page", "exception"), whether a fault was injected into a
  \* page-level call, and the number of faults injected so far
  trace, stage, finished, loopEnd, pageFault, faults,
  \* worker.analyse_sample: position, the test id testFile returned, the
  \* verdict analyseFile returned (NULL for None), the attempts counter, how
  \* the task ended ("running", "completed", "timed_out", "failed")
  vt_pc, test_id, data, attempts, vt_outcome,
  \* analyseFile's locals: the number of engines in the verdict's result
  \* list, the new analysis id (0 for None), the engines handled so far
  results, analysis_id, av_index,
  \* the analysis database: sample, analysis and antivirus tables
  samples, analyses, antivirus,
  \* history: the status GETs issued, the job states reported, whether a
  \* call that writes to the analysis database failed, whether the loop over
  \* a verdict's engines was left by an exception, and the scanner's answer
  \* to the last request ("none" before the first)
  polls, reported, storeFault, engineFault, answer,
  \* DBManager._get_or_create run by parallel crawl invocations on one lookup
  \* table: the table's rows in identifier order, whether its lookup column
  \* turned out to carry a unique constraint ("unknown" until an INSERT of a
  \* present value shows it), and per caller its position, the value it looks
  \* up, the identifier returned, and the number of calls it has made
  lk_table, lk_unique, lk_pc, lk_value, lk_ret, lk_calls,
  \* ConnectionPool shared by threads: the cached idle connections (_pool, in
  \* list order), the connection each user holds (0: none), the number of
  \* connections pyodbc.connect has made (a connection is named by its
  \* number), and the connections that were closed
  po_pool, po_conn, po_made, po_closed,
  \* one call of a function of the pipeline on its own: the function's name
  \* ("none" before the call), its arguments and what it returned or raised
  fn, fn_in, fn_out,
  \* Downloader.download_file run by parallel crawl invocations on one download
  \* folder: per caller its position, the base name of the response, the path
  \* _get_unique_file_path returned and the number of downloads made; the
  \* archives in the folder; and, for the properties, the archives that
  \* download_file returned as successfully written (caller, number, path)
  dl_pc, dl_base, dl_path, dl_done, dl_folder, dl_archives,
  \* hashManager.save_hashes run by parallel crawl invocations on one sink
  \* file: per caller its position, the key and digest it was called with, the
  \* dict it is about to write and the number of calls made; the text of the
  \* sink file; and, for the properties, the entries whose call returned True
  hs_pc, hs_arg, hs_data, hs_done, hs_text, hs_saved

crawlVars == <<pc, page, visited, outcome>>
pageVars  == <<nItems, index>>
itemVars  == <<file_size, size_exception, timeout_exception, download_exception,
               download_info, download_path, hash_value>>
browser   == <<handles, cur, quit>>
store     == <<cracks, errors, hashes, pending>>
disk      == <<files, sink>>
history   == <<trace, stage, finished, loopEnd, pageFault, faults>>

vt        == <<vt_pc, test_id, data, attempts, vt_outcome, results,
               analysis_id, av_index, samples, analyses, antivirus, polls,
               reported, storeFault, engineFault, answer>>

lookup    == <<lk_table, lk_unique, lk_pc, lk_value, lk_ret, lk_calls>>

pool      == <<po_pool, po_conn, po_made, po_closed>>

call      == <<fn, fn_in, fn_out>>

downloads == <<dl_pc, dl_base, dl_path, dl_done, dl_folder, dl_archives>>

saves     == <<hs_pc, hs_arg, hs_data, hs_done, hs_text, hs_saved>>

par       == <<downloads, saves>>

vars == <<nPages, crawlVars, pageVars, itemVars, browser, store, disk, history,
          vt, lookup, pool, call, par>>

\* -------------------------------------------------------------- environment
\* The answer of a call into the environment: "ok", or the way it fails. A
\* failure the environment injects counts against MaxFaults; "gone" is the
\* exception a driver call raises because there is no window to talk to, which
\* follows from the browser's state and is not injected.
Cost(f) == IF f \in {"ok", "gone"} THEN 0 ELSE 1

Budget(n) == faults + n <= MaxFaults /\ faults' = faults + n

\* ------------------------------------------------------------------ browser
\* An element of the result page can be used only while the current window is
\* the one showing that page.
OnMain == cur # 0 /\ handles[cur] = "main"

\* answers of a call on an element of the result page, of a call on the
\* current window, and of a bounded wait in the current window. Every
\* command can raise TimeoutException ("timeout"), not only an expired wait:
\* the driver's timeout errors are raised as that class.
ElementAnswers == IF OnMain THEN {"ok", "timeout", "exc"} ELSE {"gone"}
WindowAnswers == IF cur # 0 THEN {"ok", "timeout", "exc"} ELSE {"gone"}
WaitAnswers == IF cur # 0 THEN {"ok", "timeout", "exc"} ELSE {"gone"}

RemoveAt(s, i) == SubSeq(s, 1, i - 1) \o SubSeq(s, i + 1, Len(s))

\* DatoidCrawler.close_window: driver.close() closes the CURRENT window, then
\* the first remaining handle is made current; every exception is swallowed.
\* f is the environment's answer: "ok", "close_fails" (driver.close() raises)
\* or "switch_fails" (the window closed, the switch back raises).
close_window(h, c, f) ==
  IF f \in {"gone", "close_fails"} THEN [handles |-> h, cur |-> c]
  ELSE LET rest == RemoveAt(h, c)
       IN  IF f = "switch_fails" \/ Len(rest) = 0
           THEN [handles |-> rest, cur |-> 0]
           ELSE [handles |-> rest, cur |-> 1]

CloseAnswers == IF cur # 0 THEN {"ok", "close_fails", "switch_fails"} ELSE {"gone"}

\* ------------------------------------------------------------------- stores
JobId == "job"

\* Downloader._get_unique_file_path: base.zip, then base(1).zip, base(2).zip ...
\* until a name is free. A path is <<base, counter>>, counter 0 for base.zip.
\* (a faulty variant of ProbePath: the name is taken without looking whether it
\* exists)
ProbePathNoProbe(folder, base, counter) == <<base, counter>>

RECURSIVE ProbePath(_, _, _)
ProbePath(folder, base, counter) ==
  IF <<base, counter>> \in folder THEN ProbePath(folder, base, counter + 1)
  ELSE <<base, counter>>

_get_unique_file_path(folder, base) == ProbePath(folder, base, 0)

\* DBManager._get_or_create on the Hash table, run alone: the row's position
\* in the table is its identifier.
HashId(table, value) == CHOOSE i \in 1..Len(table) : table[i] = value

\* (a faulty variant of get_or_create: the lookup before the INSERT is missing)
get_or_create_always_inserts(table, value) == Append(table, value)

get_or_create(table, value) ==
  IF \E i \in 1..Len(table) : table[i] = value THEN table
  ELSE Append(table, value)

Digests == {"h1", "h2"}

\* BaseCrawler.__init__ takes the store, the keyword's folder and the sink as
\* it finds them (_get_download_folder makes the folder with exist_ok=True):
\* new, or as an earlier crawl of the same keyword has left them, with one
\* archive downloaded, hashed and recorded under that crawl's job.
FreshStore ==
  [cracks |-> << >>, hashes |-> << >>, files |-> {}, sink |-> {}]

EarlierCrawl ==
  [cracks |-> <<[id |-> 1, job |-> "earlier", item |-> <<0, 1>>,
                 archive |-> <<"f", 0>>, hash |-> 1]>>,
   hashes |-> <<"h1">>,
   files  |-> {<<"f", 0>>},
   sink   |-> {<<<<"f", 0>>, "h1">>}]

\* No row waits for a commit.
NoPending == [hashes |-> << >>, cracks |-> << >>, errors |-> << >>]

\* ConnectionPool.get_connection (dbManager.py 45-56): an error raised in the
\* body of the with statement is raised on as DatabaseConnectionError and the
\* connection goes back to the pool as it is, without a rollback. The crawl
\* gets that one connection again for every statement, so a row inserted
\* before the error stays with the connection: its statements see it (Seen),
\* and the next commit on it publishes it with the rows of that commit.
Seen(table, uncommitted) == table \o uncommitted

\* the rows of what the connection sees that are not in the committed table
Uncommitted(seen, table) == SubSeq(seen, Len(table) + 1, Len(seen))

\* The sink file when it does not hold JSON (empty, or the beginning of a
\* text whose writing was cut short), and when it holds JSON that is not an
\* object (a list, a string, a number, true, false or null). A sink file
\* that does not exist is read as the empty mapping.
NotJson == {<<"not JSON">>}
NotAMapping == {<<"not a mapping">>}

\* hashManager.py lines 70-77: what json.load gives. A file that is not JSON
\* makes it raise JSONDecodeError and data is {}; JSON that is not an
\* object is loaded as what it is.
load_sink(content) == IF content = NotJson THEN {} ELSE content

\* line 83: data[file_name] = hash_value
set_key(loaded, name, digest) ==
  {e \in loaded : e[1] # name} \cup {<<name, digest>>}

\* lines 86-87: open(HASH_FILE, "w") and json.dump. When the open is refused
\* ("open_refused") the file is as it was; the open truncates the file, so
\* when the writing fails after it ("write_fails") the file is left empty
\* or with the beginning of the new text; else it holds the new mapping.
write_sink(content, mapping, w) ==
  CASE w = "open_refused" -> content
    [] w = "write_fails" -> NotJson
    [] OTHER -> mapping

\* lines 70-80: the data save_hashes starts from; r is what reading the file
\* does: "ok", or "unreadable" when open or json.load raises anything but
\* JSONDecodeError, which gives {} as well
loaded_data(old, r) == IF r = "unreadable" THEN {} ELSE load_sink(old)

\* hashManager.save_hashes: the file after the call. The sink is read, the
\* key is set and the mapping is written back (w as in write_sink). Setting
\* a key in data that is not a mapping raises TypeError, which the handler
\* of lines 96-98 takes: nothing is written.
save_hashes(old, name, digest, r, w) ==
  IF loaded_data(old, r) = NotAMapping THEN old
  ELSE write_sink(old, set_key(loaded_data(old, r), name, digest), w)

\* what save_hashes returns: True after the write, False from its outer
\* handlers
save_hashes_returns(old, r, w) ==
  loaded_data(old, r) # NotAMapping /\ w = "ok"

\* the crawl invocations that run in parallel
Callers == {1, 2}

\* ConnectionPool.__init__'s default pool_size
pool_size == 5

\* the threads that use one ConnectionPool: one more than it caches
Users == 1..(pool_size + 1)

\* ------------------------------------------------------------ initial state
\* No lookup row yet, no caller inside _get_or_create.
LookupInit ==
  /\ lk_table = << >> /\ lk_unique = "unknown"
  /\ lk_pc = [c \in Callers |-> "idle"]
  /\ lk_value = [c \in Callers |-> NULL]
  /\ lk_ret = [c \in Callers |-> 0]
  /\ lk_calls = [c \in Callers |-> 0]

\* ConnectionPool.__init__: the cache is empty, nobody holds a connection.
PoolInit ==
  /\ po_pool = << >> /\ po_conn = [u \in Users |-> 0]
  /\ po_made = 0 /\ po_closed = {}

\* No parallel invocation has started a download, the folder is empty.
DownloadsInit ==
  /\ dl_pc = [c \in Callers |-> "idle"] /\ dl_base = [c \in Callers |-> NULL]
  /\ dl_path = [c \in Callers |-> NoPath] /\ dl_done = [c \in Callers |-> 0]
  /\ dl_folder = {} /\ dl_archives = {}

\* No parallel invocation has saved a hash, the sink file holds an empty
\* mapping.
SavesInit ==
  /\ hs_pc = [c \in Callers |-> "idle"] /\ hs_arg = [c \in Callers |-> << >>]
  /\ hs_data = [c \in Callers |-> << >>] /\ hs_done = [c \in Callers |-> 0]
  /\ hs_text = << >> /\ hs_saved = {}

\* No function has been called on its own yet.
CallInit == fn = "none" /\ fn_in = NULL /\ fn_out = NULL

\* BaseCrawler.__init__ done: one browser window, a fresh job, an empty folder.
\* The analysis database already holds the sample of an earlier task.
VtInit ==
  /\ vt_pc = "start" /\ test_id = NULL /\ data = NULL /\ attempts = 0
  /\ vt_outcome = "running"
  /\ results = 0 /\ analysis_id = 0 /\ av_index = 0
  /\ samples = << [name |-> "old", testid |-> "t0", analysed |-> FALSE,
                   analysis |-> 0] >>
  /\ analyses = << >> /\ antivirus = << >>
  /\ polls = 0 /\ reported = << >> /\ storeFault = FALSE
  /\ engineFault = FALSE
  /\ answer = "none"

Init ==
  /\ nPages \in 1..MaxPages
  /\ pc = "loop" /\ page = 0 /\ visited = << >> /\ outcome = "running"
  /\ nItems = 0 /\ index = 0
  /\ file_size = << >> /\ size_exception = NULL /\ timeout_exception = NULL
  /\ download_exception = FALSE /\ download_info = NULL
  /\ download_path = NoPath /\ hash_value = NULL
  /\ handles = <<"main">> /\ cur = 1 /\ quit = FALSE
  /\ \E w \in {FreshStore, EarlierCrawl} :
       /\ cracks = w.cracks /\ hashes = w.hashes
       /\ files = w.files /\ sink = w.sink
  /\ errors = << >> /\ pending = NoPending
  /\ trace = << >> /\ stage = "none" /\ finished = << >>
  /\ loopEnd = "none" /\ pageFault = FALSE
  /\ faults = 0
  /\ VtInit
  /\ LookupInit
  /\ PoolInit
  /\ CallInit
  /\ DownloadsInit
  /\ SavesInit

\* The same with the site fixed to one page and nothing left by an earlier
\* crawl, for what makes no use of the site, the store or the folder: the
\* connection pool and the functions called on their own.
OnePageInit == Init /\ nPages = 1 /\ cracks = << >> /\ files = {}

\* ------------------------------------------------------- DatoidCrawler.crawl
\* lines 279-282: the next page index
NextPage ==
  /\ pc = "loop"
  /\ page' = page + 1
  /\ pc' = "get"
  /\ UNCHANGED <<par, pool, call, lookup, nPages, visited, outcome, pageVars, itemVars, browser, store,
                 disk, history, vt>>

\* (a faulty variant of PageRaises: the handler continues with the next page instead
\* of breaking out of the loop)
PageRaisesContinue(f) ==
  /\ pc' = "loop"
  /\ loopEnd' = "exception"
  /\ pageFault' = (pageFault \/ Cost(f) = 1)

\* lines 292-294: an exception in the page body is logged and the loop is
\* left by break; the finally of line 296 follows.
PageRaises(f) ==
  /\ pc' = "close"
  /\ loopEnd' = "exception"
  /\ pageFault' = (pageFault \/ Cost(f) = 1)

\* line 285: driver.get(formatted_url) loads the page in the current window
DriverGet ==
  /\ pc = "get"
  /\ visited' = Append(visited, page)
  /\ \E f \in WindowAnswers :
       /\ Budget(Cost(f))
       /\ IF f = "ok"
          THEN /\ handles' = [handles EXCEPT ![cur] = "main"]
               /\ pc' = "crawl_page"
               /\ UNCHANGED <<loopEnd, pageFault>>
          ELSE /\ PageRaises(f)
               /\ UNCHANGED handles
  /\ UNCHANGED <<par, pool, call, lookup, nPages, page, outcome, pageVars, itemVars, cur, quit, store,
                 disk, trace, stage, finished, vt>>

\* crawl_page lines 126-133 and 266-268: wait for the items and collect them;
\* a timeout or any other exception is logged and raised to crawl.
CrawlPageFind ==
  /\ pc = "crawl_page"
  /\ \E f \in WaitAnswers :
       /\ Budget(Cost(f))
       /\ IF f = "ok"
          THEN /\ \E n \in 0..(MaxItems - Len(finished)) : nItems' = n
               /\ index' = 0
               /\ pc' = "item"
               /\ UNCHANGED <<loopEnd, pageFault>>
          ELSE /\ PageRaises(f)
               /\ UNCHANGED pageVars
  /\ UNCHANGED <<par, pool, call, lookup, nPages, page, visited, outcome, itemVars, browser, store,
                 disk, trace, stage, finished, vt>>

\* lines 135-139: the loop head; the per-item locals start as None. When the
\* loop is over crawl_page returns and its locals are gone.
ItemStart ==
  /\ pc = "item"
  /\ IF index < nItems
     THEN /\ pc' = "get_info"
          /\ stage' = "running"
          /\ UNCHANGED download_info
     ELSE /\ pc' = "next_button"
          /\ stage' = "none"
          /\ download_info' = NULL
  /\ trace' = << >>
  /\ file_size' = << >> /\ size_exception' = NULL /\ timeout_exception' = NULL
  /\ download_exception' = FALSE /\ download_path' = NoPath /\ hash_value' = NULL
  /\ UNCHANGED <<par, pool, call, lookup, nPages, page, visited, outcome, pageVars, browser, store, disk,
                 finished, loopEnd, pageFault, faults, vt>>

\* find_next_button (lines 41-56): whether the page in the current window
\* shows the next-page link before the wait expires. A window showing a
\* file's detail page has no such link.
find_next_button == OnMain /\ page < nPages

\* lines 288-290. find_next_button catches only TimeoutException: anything
\* else the wait raises goes to crawl's handler. A TimeoutException raised
\* although the page shows the link ("timeout") is taken for its absence.
NextButton ==
  /\ pc = "next_button"
  /\ \E f \in WindowAnswers :
       /\ Budget(Cost(f))
       /\ IF f \in {"ok", "timeout"}
          THEN LET found == f = "ok" /\ find_next_button
               IN  /\ pc' = IF found THEN "loop" ELSE "close"
                   /\ loopEnd' = IF found THEN loopEnd ELSE "last_page"
                   /\ pageFault' = (pageFault \/ f = "timeout")
          ELSE PageRaises(f)
  /\ UNCHANGED <<par, pool, call, lookup, nPages, page, visited, outcome, pageVars, itemVars, browser,
                 store, disk, trace, stage, finished, vt>>

\* line 297 and BaseCrawler.close (lines 143-150): driver.quit() ends the
\* session whether or not it raises, and close swallows what it raises.
Close ==
  /\ pc = "close"
  /\ handles' = << >> /\ cur' = 0 /\ quit' = TRUE
  /\ pc' = "done" /\ outcome' = "returned"
  /\ UNCHANGED <<par, pool, call, lookup, nPages, page, visited, pageVars, itemVars, store, disk,
                 history, vt>>

\* -------------------------------------------------- DatoidCrawler.crawl_page
\* The messages that end up in Error rows, by their constant part.
SizeMessage == "File size exceeds maximum allowed size"
TimeoutMessage == "Timeout downloading file"

\* (a faulty variant of Handler: a timeout is not handled and the item goes on to the
\* download)
HandlerFallsThrough(f) == IF f = "timeout" THEN "download" ELSE "except_other"

\* An exception inside the item's try block goes to the handler of its type.
Handler(f) == IF f = "timeout" THEN "except_timeout" ELSE "except_other"

\* lines 143-150: read the item's text, parse it, report progress.
\* get_parsed_file_info never raises; the element read may.
GetInfo ==
  /\ pc = "get_info"
  /\ \E f \in ElementAnswers :
       /\ Budget(Cost(f))
       /\ IF f = "ok"
          THEN /\ \E s \in { <<"1", "5", " ", "MB">>, <<"2", "5", " ", "MB">>,
                          <<"2", " ", "GB">>, <<"Unknown">> } :
                    file_size' = s
               /\ trace' = Append(trace, "info")
               /\ pc' = "validate"
          ELSE pc' = Handler(f) /\ UNCHANGED <<file_size, trace>>
  /\ UNCHANGED <<par, pool, call, lookup, nPages, page, visited, outcome, pageVars, size_exception,
                 timeout_exception, download_exception, download_info,
                 download_path, hash_value, browser, store, disk, stage,
                 finished, loopEnd, pageFault, vt>>

\* (a faulty variant of Validate: the rejection is recorded but the continue is
\* missing, so the item goes on to its detail page)
ValidateNoContinue ==
  /\ pc = "validate"
  /\ IF validate_file_size(file_size, max_file_size_mb) = "reject"
     THEN /\ size_exception' = SizeMessage
          /\ stage' = "size"
          /\ trace' = Append(trace, "size_rejected")
     ELSE UNCHANGED <<size_exception, stage, trace>>
  /\ pc' = "open_detail"
  /\ UNCHANGED <<par, pool, call, lookup, nPages, page, visited, outcome, pageVars, file_size,
                 timeout_exception, download_exception, download_info,
                 download_path, hash_value, browser, store, disk, finished,
                 loopEnd, pageFault, faults, vt>>

\* lines 152-163: the size gate; a rejection sets size_exception and continues
\* with the next item, through the finally block.
Validate ==
  /\ pc = "validate"
  /\ IF validate_file_size(file_size, max_file_size_mb) = "reject"
     THEN /\ size_exception' = SizeMessage
          /\ stage' = "size"
          /\ trace' = Append(trace, "size_rejected")
          /\ pc' = "finally"
     ELSE /\ pc' = "open_detail"
          /\ UNCHANGED <<size_exception, stage, trace>>
  /\ UNCHANGED <<par, pool, call, lookup, nPages, page, visited, outcome, pageVars, file_size,
                 timeout_exception, download_exception, download_info,
                 download_path, hash_value, browser, store, disk, finished,
                 loopEnd, pageFault, faults, vt>>

\* lines 165-169: read the detail link and open it in a new window
OpenDetail ==
  /\ pc = "open_detail"
  /\ \E f \in ElementAnswers :
       /\ Budget(Cost(f))
       /\ IF f = "ok"
          THEN /\ handles' = Append(handles, "detail")
               /\ trace' = Append(trace, "window_open")
               /\ pc' = "switch"
          ELSE pc' = Handler(f) /\ UNCHANGED <<handles, trace>>
  /\ UNCHANGED <<par, pool, call, lookup, nPages, page, visited, outcome, pageVars, itemVars, cur, quit,
                 store, disk, stage, finished, loopEnd, pageFault, vt>>

\* line 170: switch_to.window(window_handles[1])
SwitchDetail ==
  /\ pc = "switch"
  /\ \E f \in IF Len(handles) < 2 THEN {"gone"} ELSE {"ok", "timeout", "exc"} :
       /\ Budget(Cost(f))
       /\ IF f = "ok"
          THEN /\ cur' = 2
               /\ trace' = Append(trace, "switch_detail")
               /\ pc' = "click_begin"
          ELSE pc' = Handler(f) /\ UNCHANGED <<cur, trace>>
  /\ UNCHANGED <<par, pool, call, lookup, nPages, page, visited, outcome, pageVars, itemVars, handles,
                 quit, store, disk, stage, finished, loopEnd, pageFault, vt>>

\* A bounded wait in the current window, then the action on what it found:
\* it succeeds, times out, or raises something else.
WaitStep(at, label, next) ==
  /\ pc = at
  /\ \E f \in WaitAnswers :
       /\ Budget(Cost(f))
       /\ IF f = "ok"
          THEN trace' = Append(trace, label) /\ pc' = next
          ELSE pc' = Handler(f) /\ UNCHANGED trace
  /\ UNCHANGED <<par, pool, call, lookup, nPages, page, visited, outcome, pageVars, itemVars, browser,
                 store, disk, stage, finished, loopEnd, pageFault, vt>>

\* lines 172-176: wait for the begin-download button and click it
ClickBegin == WaitStep("click_begin", "click_begin", "report_wait")

\* (a faulty variant of update_task_state: what the task sink raises is not
\* caught)
update_task_state_uncaught(f) == IF f = "ok" THEN "returned" ELSE "raised"

\* DatoidCrawler.update_task_state (lines 67-95): one call of
\* task.update_state inside try / except Exception: whatever the sink answers,
\* the method returns, and the call is not repeated.
update_task_state(f) == "returned"

\* lines 178-182: progress "Waiting 30s for download preparation"; the task
\* sink takes the update or raises.
ReportWait ==
  /\ pc = "report_wait"
  /\ \E f \in {"ok", "sink_raises"} :
       /\ Budget(Cost(f))
       /\ IF update_task_state(f) = "returned"
          THEN trace' = Append(trace, "report_wait") /\ pc' = "click_second"
          ELSE pc' = Handler(f) /\ UNCHANGED trace
  /\ UNCHANGED <<par, pool, call, lookup, nPages, page, visited, outcome, pageVars, itemVars,
                 browser, store, disk, stage, finished, loopEnd, pageFault, vt>>

\* lines 184-188: wait for the second control and click it
ClickSecond == WaitStep("click_second", "click_second", "wait_link")

\* lines 190-192: wait for the final link
WaitLink == WaitStep("wait_link", "wait_link", "get_href")

\* lines 194-195: download_link = element.get_attribute("href")
GetHref ==
  /\ pc = "get_href"
  /\ \E f \in WindowAnswers :
       /\ Budget(Cost(f))
       /\ IF f = "ok"
          THEN trace' = Append(trace, "href") /\ pc' = "close_detail"
          ELSE pc' = Handler(f) /\ UNCHANGED trace
  /\ UNCHANGED <<par, pool, call, lookup, nPages, page, visited, outcome, pageVars, itemVars, browser,
                 store, disk, stage, finished, loopEnd, pageFault, vt>>

\* line 197: self.close_window()
CloseDetail ==
  /\ pc = "close_detail"
  /\ \E f \in CloseAnswers :
       LET w == close_window(handles, cur, f)
       IN  Budget(Cost(f)) /\ handles' = w.handles /\ cur' = w.cur
  /\ trace' = Append(trace, "close_window")
  /\ pc' = "download"
  /\ UNCHANGED <<par, pool, call, lookup, nPages, page, visited, outcome, pageVars, itemVars, quit,
                 store, disk, stage, finished, loopEnd, pageFault, vt>>

\* Downloader.download_file (lines 146-212), by the place where it ends. It
\* never raises: it returns (status message, path or None, error flag).
\*   "ok"         line 184, the archive is written
\*   "timeout"    line 199, "request" line 204: nothing was written yet
\*   "io"         lines 186-194 and 207: the incomplete archive is deleted
\*   "unexpected" line 212, raised before the archive was created
\*   "unexpected_partial" line 212, raised while the archive was being written
\* base is the file name the response gives (_get_file_name).
DownloadOutcomes ==
  {"ok", "timeout", "request", "io", "unexpected", "unexpected_partial"}

DownloadMessage(d) ==
  CASE d = "ok" -> "File successfully downloaded"
    [] d = "timeout" -> "Download timeout"
    [] d = "request" -> "Download request failed"
    [] d = "io" -> "File write error"
    [] OTHER -> "Unexpected download error"

\* (a faulty variant of download_file: the path of an archive whose writing
\* failed is returned with the error flag)
download_file_keeps_path(folder, base, d) ==
  LET file_path == _get_unique_file_path(folder, base)
  IN  [info   |-> DownloadMessage(d),
       path   |-> IF d \in {"ok", "io", "unexpected_partial"}
                  THEN file_path ELSE NoPath,
       error  |-> d # "ok",
       folder |-> IF d \in {"ok", "unexpected_partial"}
                  THEN folder \cup {file_path} ELSE folder]

download_file(folder, base, d) ==
  LET file_path == _get_unique_file_path(folder, base)
  IN  [info   |-> DownloadMessage(d),
       path   |-> IF d = "ok" THEN file_path ELSE NoPath,
       error  |-> d # "ok",
       folder |-> IF d \in {"ok", "unexpected_partial"}
                  THEN folder \cup {file_path} ELSE folder]

\* lines 199-212: report, download, report the download's message
Download ==
  /\ pc = "download"
  /\ \E d \in DownloadOutcomes :
       LET r == download_file(files, "f", d)
       IN  /\ Budget(Cost(d))
           /\ download_info' = r.info
           /\ download_path' = r.path
           /\ download_exception' = r.error
           /\ files' = r.folder
           /\ stage' = IF r.error THEN "download" ELSE stage
  /\ trace' = Append(trace, "download")
  /\ pc' = "hash"
  /\ UNCHANGED <<par, pool, call, lookup, nPages, page, visited, outcome, pageVars, file_size,
                 size_exception, timeout_exception, hash_value, browser, store,
                 sink, finished, loopEnd, pageFault, vt>>

\* lines 214-225: hash the archive if there is one. calculate_sha256 returns
\* the digest, or None on any failure; save_hashes never raises. The sink
\* file is found as the crawl left it ("ok") or not holding JSON any more
\* ("corrupt"), and written as in write_sink. A crawl never writes JSON that
\* is not an object, so the sink of a run is never NotAMapping; that content
\* is given to save_hashes by CallSaveHashes.
Hash ==
  /\ pc = "hash"
  /\ IF download_path # NoPath
     THEN \E h \in Digests \cup {NULL}, r \in {"ok", "corrupt"},
             w \in {"ok", "open_refused", "write_fails"} :
            /\ Budget(Cost(r) + Cost(w) + IF h = NULL THEN 1 ELSE 0)
            /\ hash_value' = h
            /\ sink' = save_hashes(IF r = "corrupt" THEN NotJson ELSE sink,
                                   download_path, h, "ok", w)
            /\ stage' = IF h = NULL THEN "hash" ELSE "success"
            /\ trace' = Append(trace, "hash")
     ELSE UNCHANGED <<hash_value, sink, stage, trace, faults>>
  /\ pc' = "finally"
  /\ UNCHANGED <<par, pool, call, lookup, nPages, page, visited, outcome, pageVars, file_size,
                 size_exception, timeout_exception, download_exception,
                 download_info, download_path, browser, store, files, finished,
                 loopEnd, pageFault, vt>>

\* lines 227-230: a TimeoutException of the try block
ExceptTimeout ==
  /\ pc = "except_timeout"
  /\ timeout_exception' = TimeoutMessage
  /\ stage' = "timeout"
  /\ \E f \in CloseAnswers :
       LET w == close_window(handles, cur, f)
       IN  Budget(Cost(f)) /\ handles' = w.handles /\ cur' = w.cur
  /\ pc' = "finally"
  /\ UNCHANGED <<par, pool, call, lookup, nPages, page, visited, outcome, pageVars, file_size,
                 size_exception, download_exception, download_info,
                 download_path, hash_value, quit, store, disk, trace, finished,
                 loopEnd, pageFault, vt>>

\* (a faulty variant of ExceptOther: the exception is raised again and leaves the
\* page loop through crawl_page's outer handler)
ExceptOtherRaises ==
  /\ pc = "except_other"
  /\ stage' = "exception"
  /\ pc' = "close"
  /\ loopEnd' = "exception"
  /\ UNCHANGED <<par, pool, call, lookup, nPages, page, visited, outcome, pageVars, itemVars, browser,
                 store, disk, trace, finished, pageFault, faults, vt>>

\* lines 232-237: any other exception of the try block is logged, no failure
\* flag is set
ExceptOther ==
  /\ pc = "except_other"
  /\ stage' = "exception"
  /\ \E f \in CloseAnswers :
       LET w == close_window(handles, cur, f)
       IN  Budget(Cost(f)) /\ handles' = w.handles /\ cur' = w.cur
  /\ pc' = "finally"
  /\ UNCHANGED <<par, pool, call, lookup, nPages, page, visited, outcome, pageVars, itemVars, quit,
                 store, disk, trace, finished, loopEnd, pageFault, vt>>

\* ----------------------------------------------- the finally block, 239-264
\* (a faulty variant of insert_crack: the insert is never committed)
insert_crack_uncommitted(table, item, zipfile, hash_id) == table

\* DBManager.insert_crack: the new row; CrackID is an identity column. The
\* item field is not a column: it names the item the row was written for.
insert_crack(table, item, zipfile, hash_id) ==
  Append(table, [id |-> Len(table) + 1, job |-> JobId, item |-> item,
                 archive |-> zipfile, hash |-> hash_id])

\* (a faulty variant of insert_error: the row references the Crack row before
\* the one it was given)
insert_error_previous_crack(table, error_message, crack_id) ==
  Append(table, [message |-> error_message, crack |-> crack_id - 1])

\* DBManager.insert_error
insert_error(table, error_message, crack_id) ==
  Append(table, [message |-> error_message, crack |-> crack_id])

\* (a faulty variant of HasArtifact: the hash is not tested)
HasArtifactPathOnly(path, digest) == path # NoPath

\* line 242: if download_path and hash_value
HasArtifact(path, digest) == path # NoPath /\ digest # NULL

\* (a faulty variant of ErrorMessages: the size rejection is not recorded)
ErrorMessagesNoSize(dl_exc, dl_info, timeout_exc, size_exc) ==
  (IF dl_exc THEN <<dl_info>> ELSE << >>)
  \o (IF timeout_exc # NULL THEN <<timeout_exc>> ELSE << >>)

\* lines 255-261: the messages to record, in the order they are tested
ErrorMessages(dl_exc, dl_info, timeout_exc, size_exc) ==
  (IF dl_exc THEN <<dl_info>> ELSE << >>)
  \o (IF timeout_exc # NULL THEN <<timeout_exc>> ELSE << >>)
  \o (IF size_exc # NULL THEN <<size_exc>> ELSE << >>)

RECURSIVE InsertErrors(_, _, _, _)
InsertErrors(table, msgs, k, crack_id) ==
  IF k = 0 THEN table
  ELSE insert_error(InsertErrors(table, msgs, k - 1, crack_id), msgs[k], crack_id)

\* The finally block of one item. db is what the store answers to insert_hash
\* and insert_crack:
\*   "ok"             both return;
\*   "hash_fails"     insert_hash raises at its SELECT or at the execute() of
\*                    its INSERT: nothing is inserted;
\*   "hash_pending"   insert_hash raises at the commit() after its INSERT: the
\*                    row stays uncommitted on the connection;
\*   "hash_committed" insert_hash raises at the SELECT that reads the new
\*                    identifier, after the commit();
\*   "crack_fails"    insert_crack raises at the execute() of its INSERT;
\*   "crack_pending"  insert_crack raises at fetchone() or at commit(): the row
\*                    stays uncommitted on the connection.
\* With "ok" the first k error inserts return; the next one, if any, raises,
\* at execute() (e = "fails") or after it (e = "pending"). A commit publishes
\* every row the connection has inserted up to then. Whatever is raised is
\* logged at line 264 and the loop goes on; the identity columns count every
\* row inserted, committed or not.
Persist ==
  /\ pc = "finally"
  /\ LET msgs  == ErrorMessages(download_exception, download_info,
                                timeout_exception, size_exception)
         art   == HasArtifact(download_path, hash_value)
         seenH == Seen(hashes, pending.hashes)
         seenC == Seen(cracks, pending.cracks)
         seenE == Seen(errors, pending.errors)
     IN  \E db \in {"ok", "hash_fails", "hash_pending", "hash_committed",
                    "crack_fails", "crack_pending"},
            k \in 0..Len(msgs), e \in {"fails", "pending"} :
           LET newH == IF art /\ db # "hash_fails"
                       THEN get_or_create(seenH, hash_value) ELSE seenH
               \* insert_hash has committed its INSERT
               hashCommit == newH # seenH /\ db # "hash_pending"
               newC == IF db \notin {"ok", "crack_pending"} THEN seenC
                       ELSE IF art
                       THEN insert_crack(seenC, <<page, index + 1>>,
                                         download_path, HashId(newH, hash_value))
                       ELSE insert_crack(seenC, <<page, index + 1>>, NoPath, 0)
               \* the error inserts that have run their INSERT
               ran  == IF k < Len(msgs) /\ e = "pending" THEN k + 1 ELSE k
               newE == IF db # "ok" THEN seenE
                       ELSE InsertErrors(seenE, msgs, ran, Len(seenC) + 1)
           IN  /\ (db \in {"hash_fails", "hash_pending", "hash_committed"}) => art
               /\ (db \in {"hash_pending", "hash_committed"}) => newH # seenH
               /\ (db # "ok") => (k = Len(msgs))
               /\ (k = Len(msgs)) => (e = "fails")
               /\ Budget(IF db = "ok" /\ k = Len(msgs) THEN 0 ELSE 1)
               /\ hashes' = IF hashCommit \/ db = "ok" THEN newH ELSE hashes
               /\ cracks' = IF db = "ok" THEN newC
                            ELSE IF hashCommit THEN seenC ELSE cracks
               /\ errors' = IF db = "ok"
                            THEN InsertErrors(seenE, msgs, k, Len(seenC) + 1)
                            ELSE IF hashCommit THEN seenE ELSE errors
               /\ pending' = [hashes |-> Uncommitted(newH, hashes'),
                              cracks |-> Uncommitted(newC, cracks'),
                              errors |-> Uncommitted(newE, errors')]
               /\ finished' = Append(finished,
                    [item |-> <<page, index + 1>>, stage |-> stage,
                     downloaded |-> ("download" \in {trace[i] : i \in 1..Len(trace)}),
                     crack_ran |-> (db \in {"ok", "crack_pending"}),
                     crack_saved |-> (db = "ok"),
                     errors_saved |-> (db = "ok" /\ k = Len(msgs))])
  /\ index' = index + 1
  /\ pc' = "item"
  /\ UNCHANGED <<par, pool, call, lookup, nPages, page, visited, outcome, nItems, itemVars, browser,
                 disk, trace, stage, loopEnd, pageFault, vt>>

CrawlNext ==
  \/ NextPage \/ DriverGet \/ CrawlPageFind \/ ItemStart \/ NextButton \/ Close
  \/ GetInfo \/ Validate \/ OpenDetail \/ SwitchDetail \/ ClickBegin
  \/ ReportWait \/ ClickSecond \/ WaitLink \/ GetHref \/ CloseDetail
  \/ Download \/ Hash \/ ExceptTimeout \/ ExceptOther \/ Persist

Spec == Init /\ [][CrawlNext]_vars

\* ===================================================== the analysis task
\* Everything of the crawl but the fault counter.
crawlAll == <<nPages, crawlVars, pageVars, itemVars, browser, store, disk,
              trace, stage, finished, loopEnd, pageFault>>

\* worker.py line 109
max_attempts == vt_max_wait_time \div vt_analysis_check_interval

\* An exception anywhere in analyse_sample reaches lines 155-157, which log
\* it and raise it to the job runner.
TaskRaises ==
  /\ vt_pc' = "done"
  /\ vt_outcome' = "failed"

\* self.update_state(state=...): the job-tracking sink takes the state or raises
update_state(state, f) ==
  reported' = IF f = "ok" THEN Append(reported, state) ELSE reported

\* worker.py lines 79-89
ReportUploaded ==
  /\ vt_pc = "start"
  /\ \E f \in {"ok", "exc"} :
       /\ Budget(Cost(f))
       /\ update_state("FILE_UPLOADED", f)
       /\ IF f = "ok" THEN vt_pc' = "upload" /\ UNCHANGED vt_outcome
          ELSE TaskRaises
  /\ UNCHANGED <<par, pool, call, lookup, crawlAll, test_id, data, attempts, results, analysis_id,
                 av_index, samples, analyses, antivirus, polls, storeFault>>
  /\ UNCHANGED <<answer, engineFault>>

\* dbVTManager.insert_sample
insert_sample(table, filename, id) ==
  Append(table, [name |-> filename, testid |-> id, analysed |-> FALSE,
                 analysis |-> 0])

\* worker.py line 93 and testFile (testFile.py lines 26-91): the POST answers
\* with a test id, or with 429, a timeout, another HTTP error or a body without
\* data.id, each of which leaves testFile as VirusTotalAPIError. A failed
\* insert_sample is logged and the id is returned all the same; it fails with
\* no row ("fails") or, when the commit that pyodbc makes on leaving the with
\* block raises after conn.commit(), with its row ("committed_fails").
UploadAnswers == {"ok", "rate_limit", "timeout", "http_error", "bad_format"}

Upload ==
  /\ vt_pc = "upload"
  /\ \E a \in UploadAnswers, st \in {"ok", "fails", "committed_fails"} :
       /\ (a # "ok") => (st = "ok")
       /\ answer' = a
       /\ Budget(Cost(st))
       /\ IF a = "ok"
          THEN /\ test_id' = "t1"
               /\ samples' = IF st # "fails"
                             THEN insert_sample(samples, "file", "t1")
                             ELSE samples
               /\ storeFault' = (storeFault \/ st # "ok")
               /\ vt_pc' = "report_analysing"
               /\ UNCHANGED vt_outcome
          ELSE /\ TaskRaises
               /\ UNCHANGED <<test_id, samples, storeFault>>
  /\ UNCHANGED <<par, pool, call, lookup, crawlAll, data, attempts, results, analysis_id, av_index,
                 analyses, antivirus, polls, reported, engineFault>>

\* worker.py lines 95-111
ReportAnalysing ==
  /\ vt_pc = "report_analysing"
  /\ \E f \in {"ok", "exc"} :
       /\ Budget(Cost(f))
       /\ update_state("ANALYSING", f)
       /\ IF f = "ok"
          THEN /\ data' = NULL /\ attempts' = 0
               /\ vt_pc' = "loop"
               /\ UNCHANGED vt_outcome
          ELSE TaskRaises /\ UNCHANGED <<data, attempts>>
  /\ UNCHANGED <<par, pool, call, lookup, crawlAll, test_id, results, analysis_id, av_index, samples,
                 analyses, antivirus, polls, storeFault>>
  /\ UNCHANGED <<answer, engineFault>>

\* (a faulty variant of KeepPolling: the loop does not stop on a verdict)
KeepPollingIgnoresData(d, n) == n < max_attempts

\* worker.py line 113: while not data and attempts < max_attempts
KeepPolling(d, n) == d = NULL /\ n < max_attempts

LoopHead ==
  /\ vt_pc = "loop"
  /\ vt_pc' = IF KeepPolling(data, attempts) THEN "poll" ELSE "after"
  /\ UNCHANGED <<par, pool, call, lookup, crawlAll, faults, test_id, data, attempts, vt_outcome, results,
                 analysis_id, av_index, samples, analyses, antivirus, polls,
                 reported, storeFault>>
  /\ UNCHANGED <<answer, engineFault>>

\* (a faulty variant of Poll: an HTTP error status is taken as not ready)
PollRetriesErrors ==
  /\ vt_pc = "poll"
  /\ polls' = polls + 1
  /\ \E a \in {"rate_limit", "timeout", "pending", "completed", "http_error",
               "bad_format"} :
       /\ answer' = a
       /\ CASE a \in {"rate_limit", "timeout", "pending", "http_error"} ->
                 /\ vt_pc' = "not_ready"
                 /\ UNCHANGED <<results, vt_outcome>>
            [] a = "completed" ->
                 /\ \E n \in 0..MaxEngines : results' = n
                 /\ vt_pc' = "insert_analysis"
                 /\ UNCHANGED vt_outcome
            [] OTHER ->
                 /\ TaskRaises
                 /\ UNCHANGED results
  /\ UNCHANGED <<par, pool, call, lookup, crawlAll, faults, test_id, data, attempts, analysis_id,
                 av_index, samples, analyses, antivirus, reported, storeFault,
                 engineFault>>

\* worker.py line 114 and analyseFile (testFile.py lines 107-146, 176-193): the
\* status GET. 429, a request timeout and a verdict that is not completed make
\* analyseFile return None; another HTTP error or a body without the expected
\* keys leaves it as VirusTotalAPIError; a completed verdict is saved.
Poll ==
  /\ vt_pc = "poll"
  /\ polls' = polls + 1
  /\ \E a \in {"rate_limit", "timeout", "pending", "completed", "http_error",
              "bad_format"} :
       /\ answer' = a
       /\ CASE a \in {"rate_limit", "timeout", "pending"} ->
                 /\ vt_pc' = "not_ready"
                 /\ UNCHANGED <<results, vt_outcome>>
            [] a = "completed" ->
                 /\ \E n \in 0..MaxEngines : results' = n
                 /\ vt_pc' = "insert_analysis"
                 /\ UNCHANGED vt_outcome
            [] OTHER ->
                 /\ TaskRaises
                 /\ UNCHANGED results
  /\ UNCHANGED <<par, pool, call, lookup, crawlAll, faults, test_id, data, attempts, analysis_id,
                 av_index, samples, analyses, antivirus, reported, storeFault,
                 engineFault>>

\* testFile.py lines 149-153 and dbVTManager.insert_analysis: the insert gives
\* the new id ("ok"); a pyodbc error leaves it as DatabaseInsertError, which
\* line 171 logs: raised before conn.commit() there is no row ("raises"),
\* raised by the commit that pyodbc makes on leaving the with block the row
\* is there ("committed_raises"); a failed connection makes it return None
\* ("none").
InsertAnalysis ==
  /\ vt_pc = "insert_analysis"
  /\ \E st \in {"ok", "raises", "committed_raises", "none"} :
       /\ Budget(Cost(st))
       /\ storeFault' = (storeFault \/ st # "ok")
       /\ analyses' = IF st \in {"ok", "committed_raises"}
                      THEN Append(analyses, [id |-> Len(analyses) + 1,
                                             status |-> "completed"])
                      ELSE analyses
       /\ analysis_id' = IF st = "ok" THEN Len(analyses) + 1 ELSE 0
       /\ vt_pc' = IF st \in {"raises", "committed_raises"}
                   THEN "return_data" ELSE "insert_antivirus"
  /\ av_index' = 0
  /\ UNCHANGED <<par, pool, call, lookup, crawlAll, test_id, data, attempts, vt_outcome, results,
                 samples, antivirus, polls, reported>>
  /\ UNCHANGED <<answer, engineFault>>

\* testFile.py lines 155-166 and dbVTManager.insert_antivirus: one insert per
\* engine of the result list; a failed insert returns None and the loop goes
\* on, the row missing ("fails") or written ("committed_fails": the commit on
\* leaving the with block raised). The loop is inside the try of lines
\* 148-171: when the result list is no mapping (results.items() raises before
\* the first engine) or an engine's entry is none (engine_data.get raises),
\* the exception is logged at line 171, the engines left and update_sample
\* are skipped, and the verdict is returned.
InsertAntivirus ==
  /\ vt_pc = "insert_antivirus"
  /\ \/ /\ av_index < results
        /\ \E st \in {"ok", "fails", "committed_fails"} :
             /\ Budget(Cost(st))
             /\ storeFault' = (storeFault \/ st # "ok")
             /\ antivirus' = IF st # "fails"
                             THEN Append(antivirus, [engine |-> av_index + 1,
                                                     analysis |-> analysis_id])
                             ELSE antivirus
        /\ av_index' = av_index + 1
        /\ UNCHANGED <<vt_pc, engineFault>>
     \/ /\ av_index = results
        /\ vt_pc' = "update_sample"
        /\ UNCHANGED <<antivirus, av_index, storeFault, faults, engineFault>>
     \/ /\ av_index < results \/ av_index = 0
        /\ engineFault' = TRUE
        /\ vt_pc' = "return_data"
        /\ UNCHANGED <<antivirus, av_index, storeFault, faults>>
  /\ UNCHANGED <<par, pool, call, lookup, crawlAll, test_id, data, attempts, vt_outcome, results,
                 analysis_id, samples, analyses, polls, reported>>
  /\ UNCHANGED answer

\* dbVTManager.update_sample: UPDATE sample SET analysed = 1, analysis_id = ?
\* WHERE testid = ?
update_sample(table, id, aid) ==
  [i \in 1..Len(table) |->
     IF table[i].testid = id
     THEN [table[i] EXCEPT !.analysed = TRUE, !.analysis = aid]
     ELSE table[i]]

\* testFile.py lines 168-172: a failed update returns False, the row unmarked
\* ("fails") or marked ("committed_fails": the commit on leaving the with
\* block raised)
UpdateSample ==
  /\ vt_pc = "update_sample"
  /\ \E st \in {"ok", "fails", "committed_fails"} :
       /\ Budget(Cost(st))
       /\ storeFault' = (storeFault \/ st # "ok")
       /\ samples' = IF st # "fails"
                     THEN update_sample(samples, test_id, analysis_id)
                     ELSE samples
  /\ vt_pc' = "return_data"
  /\ UNCHANGED <<par, pool, call, lookup, crawlAll, test_id, data, attempts, vt_outcome, results,
                 analysis_id, av_index, analyses, antivirus, polls, reported>>
  /\ UNCHANGED <<answer, engineFault>>

\* testFile.py line 174: return data
ReturnData ==
  /\ vt_pc = "return_data"
  /\ data' = "verdict"
  /\ vt_pc' = "loop"
  /\ UNCHANGED <<par, pool, call, lookup, crawlAll, faults, test_id, attempts, vt_outcome, results,
                 analysis_id, av_index, samples, analyses, antivirus, polls,
                 reported, storeFault>>
  /\ UNCHANGED <<answer, engineFault>>

\* worker.py lines 116-130: count the attempt, report, sleep
NotReady ==
  /\ vt_pc = "not_ready"
  /\ attempts' = attempts + 1
  /\ \E f \in {"ok", "exc"} :
       /\ Budget(Cost(f))
       /\ update_state("ANALYSING", f)
       /\ IF f = "ok" THEN vt_pc' = "loop" /\ UNCHANGED vt_outcome
          ELSE TaskRaises
  /\ UNCHANGED <<par, pool, call, lookup, crawlAll, test_id, data, results, analysis_id, av_index,
                 samples, analyses, antivirus, polls, storeFault>>
  /\ UNCHANGED <<answer, engineFault>>

\* (a faulty variant of AfterLoop: COMPLETED is reported without looking at
\* data)
AfterLoopAlwaysCompletes ==
  /\ vt_pc = "after"
  /\ vt_pc' = "done"
  /\ \E f \in {"ok", "exc"} :
       /\ Budget(Cost(f))
       /\ update_state("COMPLETED", f)
       /\ vt_outcome' = IF f = "ok" THEN "completed" ELSE "failed"
  /\ UNCHANGED <<par, pool, call, lookup, crawlAll, test_id, data, attempts, results, analysis_id,
                 av_index, samples, analyses, antivirus, polls, storeFault>>
  /\ UNCHANGED <<answer, engineFault>>

\* worker.py lines 132-153: TimeoutError without a verdict, else COMPLETED
AfterLoop ==
  /\ vt_pc = "after"
  /\ vt_pc' = "done"
  /\ IF data = NULL
     THEN /\ vt_outcome' = "timed_out"
          /\ UNCHANGED <<reported, faults>>
     ELSE \E f \in {"ok", "exc"} :
            /\ Budget(Cost(f))
            /\ update_state("COMPLETED", f)
            /\ vt_outcome' = IF f = "ok" THEN "completed" ELSE "failed"
  /\ UNCHANGED <<par, pool, call, lookup, crawlAll, test_id, data, attempts, results, analysis_id,
                 av_index, samples, analyses, antivirus, polls, storeFault>>
  /\ UNCHANGED <<answer, engineFault>>

VtNext ==
  \/ ReportUploaded \/ Upload \/ ReportAnalysing \/ LoopHead \/ Poll
  \/ InsertAnalysis \/ InsertAntivirus \/ UpdateSample \/ ReturnData
  \/ NotReady \/ AfterLoop

VtSpec == Init /\ [][VtNext]_vars

\* ================================================ concurrent get-or-create
\* DBManager._get_or_create (dbManager.py lines 76-122), one action per
\* statement it sends, so that the statements of parallel callers interleave.
\* The rows a SELECT ... WHERE column = value matches:
Matching(v) == {i \in 1..Len(lk_table) : lk_table[i] = v}

\* a caller enters _get_or_create with a value (insert_hash, line 186)
StartCall(c) ==
  /\ lk_pc[c] \in {"idle", "returned", "raised"}
  /\ lk_calls[c] < MaxCalls
  /\ \E v \in Digests : lk_value' = [lk_value EXCEPT ![c] = v]
  /\ lk_pc' = [lk_pc EXCEPT ![c] = "select"]
  /\ lk_ret' = [lk_ret EXCEPT ![c] = 0]
  /\ lk_calls' = [lk_calls EXCEPT ![c] = @ + 1]
  /\ UNCHANGED <<lk_table, lk_unique>>

\* lines 96-103: SELECT; fetchone gives one of the matching rows, and the
\* call returns its identifier if there is one
LookupSelect(c) ==
  /\ lk_pc[c] = "select"
  /\ IF Matching(lk_value[c]) # {}
     THEN /\ \E i \in Matching(lk_value[c]) : lk_ret' = [lk_ret EXCEPT ![c] = i]
          /\ lk_pc' = [lk_pc EXCEPT ![c] = "returned"]
     ELSE /\ lk_pc' = [lk_pc EXCEPT ![c] = "insert"]
          /\ UNCHANGED lk_ret
  /\ UNCHANGED <<lk_table, lk_unique, lk_value, lk_calls>>

\* The callers whose INSERT of v is not committed yet.
Inserting(v) == {c \in Callers : lk_pc[c] = "commit" /\ lk_value[c] = v}

\* lines 105-107: the INSERT. When the value is in the table by now (another
\* caller committed it after this caller's SELECT), a unique constraint
\* makes the INSERT raise pyodbc.IntegrityError, which get_connection (lines
\* 45-47) raises again as DatabaseConnectionError and nothing in
\* _get_or_create catches; without the constraint the row is inserted. The
\* row is this connection's until the commit. While another caller's INSERT
\* of the value is not committed, a unique constraint makes this INSERT
\* wait for that commit.
LookupInsert(c) ==
  /\ lk_pc[c] = "insert"
  /\ IF Matching(lk_value[c]) = {} /\ Inserting(lk_value[c]) = {}
     THEN /\ lk_pc' = [lk_pc EXCEPT ![c] = "commit"]
          /\ UNCHANGED lk_unique
     ELSE \E u \in IF lk_unique = "unknown" THEN {"yes", "no"} ELSE {lk_unique} :
            /\ lk_unique' = u
            /\ lk_pc' = [lk_pc EXCEPT ![c] =
                           IF u = "no" THEN "commit"
                           ELSE IF Matching(lk_value[c]) # {} THEN "raised"
                           ELSE "insert"]
  /\ UNCHANGED <<lk_table, lk_value, lk_ret, lk_calls>>

\* line 108: conn.commit() puts the row into the table for every connection
\* to see
LookupCommit(c) ==
  /\ lk_pc[c] = "commit"
  /\ lk_table' = Append(lk_table, lk_value[c])
  /\ lk_pc' = [lk_pc EXCEPT ![c] = "reselect"]
  /\ UNCHANGED <<lk_unique, lk_value, lk_ret, lk_calls>>

\* lines 110-118: the same SELECT again; the row this caller committed is
\* there, so fetchone gives a matching row and its identifier is returned
LookupReselect(c) ==
  /\ lk_pc[c] = "reselect"
  /\ \E i \in Matching(lk_value[c]) : lk_ret' = [lk_ret EXCEPT ![c] = i]
  /\ lk_pc' = [lk_pc EXCEPT ![c] = "returned"]
  /\ UNCHANGED <<lk_table, lk_unique, lk_value, lk_calls>>

\* Everything but the lookup table and its callers.
allButLookup == <<crawlAll, faults, vt, pool, call, par>>

LookupNext ==
  /\ \E c \in Callers :
       \/ StartCall(c) \/ LookupSelect(c) \/ LookupInsert(c)
       \/ LookupCommit(c) \/ LookupReselect(c)
  /\ UNCHANGED allButLookup

LookupSpec == Init /\ [][LookupNext]_vars

\* ========================================================= ConnectionPool
\* get_connection, entered by the threads of Users. What it does before the
\* yield and what it does in its finally block each run under self._lock, so
\* each is one step.
allButPool == <<crawlAll, faults, vt, lookup, call, par>>

InUse == {u \in Users : po_conn[u] # 0}

\* (a faulty variant of Acquire: the cached connection is read from the end
\* of the list and left in it)
AcquireLeavesCached(u) ==
  /\ po_conn[u] = 0
  /\ IF Len(po_pool) > 0
     THEN /\ po_conn' = [po_conn EXCEPT ![u] = po_pool[Len(po_pool)]]
          /\ UNCHANGED <<po_pool, po_made>>
     ELSE /\ po_made < MaxConnects
          /\ po_made' = po_made + 1
          /\ po_conn' = [po_conn EXCEPT ![u] = po_made + 1]
          /\ UNCHANGED po_pool
  /\ UNCHANGED po_closed

\* lines 33-43: a cached connection is popped from the end of the list; with
\* an empty cache pyodbc.connect makes a new one, or raises: then conn is
\* None, the caller gets DatabaseConnectionError, nothing is released and the
\* pool is as it was.
Acquire(u) ==
  /\ po_conn[u] = 0
  /\ IF Len(po_pool) > 0
     THEN /\ po_conn' = [po_conn EXCEPT ![u] = po_pool[Len(po_pool)]]
          /\ po_pool' = SubSeq(po_pool, 1, Len(po_pool) - 1)
          /\ UNCHANGED po_made
     ELSE /\ \E f \in {"ok", "connect_fails"} :
               IF f = "ok"
               THEN /\ po_made < MaxConnects
                    /\ po_made' = po_made + 1
                    /\ po_conn' = [po_conn EXCEPT ![u] = po_made + 1]
               ELSE UNCHANGED <<po_made, po_conn>>
          /\ UNCHANGED po_pool
  /\ UNCHANGED po_closed

\* (a faulty variant of Release: the connection is cached whatever the cache
\* holds)
ReleaseAlwaysCaches(u) ==
  /\ po_conn[u] # 0
  /\ po_pool' = Append(po_pool, po_conn[u])
  /\ po_conn' = [po_conn EXCEPT ![u] = 0]
  /\ UNCHANGED <<po_made, po_closed>>

\* lines 48-56: the with-body is over, normally or by an exception; the
\* connection goes back to the cache if it has room and is closed if not.
Release(u) ==
  /\ po_conn[u] # 0
  /\ IF Len(po_pool) < pool_size
     THEN po_pool' = Append(po_pool, po_conn[u]) /\ UNCHANGED po_closed
     ELSE po_closed' = po_closed \cup {po_conn[u]} /\ UNCHANGED po_pool
  /\ po_conn' = [po_conn EXCEPT ![u] = 0]
  /\ UNCHANGED po_made

PoolNext ==
  /\ \E u \in Users : Acquire(u) \/ Release(u)
  /\ UNCHANGED allButPool

PoolSpec == OnePageInit /\ [][PoolNext]_vars

\* ============================================ functions called on their own
\* One call, or a sequence of calls, of a function of the pipeline with
\* arguments drawn from a bounded set; fn_in keeps the arguments and fn_out
\* what the call returned.
allButCall == <<crawlAll, faults, vt, lookup, pool, par>>

\* ---------------------------------------------- Downloader, the folder
\* the base names two responses give, and the archives a folder may hold
Bases == {"a", "b"}
Paths == Bases \X (0..MaxCounter)

\* Downloader._get_unique_file_path(filename) on a folder with any content
CallUniquePath ==
  /\ fn = "none"
  /\ \E folder \in SUBSET Paths, base \in Bases :
       /\ fn_in' = [folder |-> folder, base |-> base]
       /\ fn_out' = _get_unique_file_path(folder, base)
  /\ fn' = "_get_unique_file_path"
  /\ UNCHANGED allButCall

\* Downloader.download_file(url), the first call into a folder with any content
FirstDownload ==
  /\ fn = "none"
  /\ \E folder \in SUBSET Paths, base \in Bases, d \in DownloadOutcomes :
       /\ fn_in' = [folder |-> folder, base |-> base, d |-> d]
       /\ fn_out' = download_file(folder, base, d)
  /\ fn' = "download_file"
  /\ UNCHANGED allButCall

\* ... and the next call into the folder the previous call left
NextDownload ==
  /\ fn = "download_file"
  /\ fn_out.folder \subseteq Paths /\ fn_out.folder # Paths
  /\ \E base \in Bases, d \in DownloadOutcomes :
       /\ fn_in' = [folder |-> fn_out.folder, base |-> base, d |-> d]
       /\ fn_out' = download_file(fn_out.folder, base, d)
  /\ fn' = "download_file"
  /\ UNCHANGED allButCall

FolderNext == CallUniquePath \/ FirstDownload \/ NextDownload

FolderSpec == OnePageInit /\ [][FolderNext]_vars

\* ------------------------------------------------- hashManager.save_hashes
\* the archive names hashed and the contents a sink file may have: a
\* mapping with one digest or null per name, no JSON, or JSON that is not an
\* object
\* save_hashes(file_name, hash_value) on a sink with any content, with every
\* answer of the file system to the read and to the write
CallSaveHashes ==
  /\ fn = "none"
  /\ \E old \in {c \in SUBSET ((Bases \X {0}) \X (Digests \cup {NULL})) :
                    \A e1 \in c, e2 \in c : e1[1] = e2[1] => e1 = e2}
                  \cup {NotJson, NotAMapping},
        name \in Bases \X {0},
        digest \in Digests \cup {NULL}, r \in {"ok", "unreadable"},
        w \in {"ok", "open_refused", "write_fails"} :
       /\ fn_in' = [old |-> old, name |-> name, digest |-> digest,
                    r |-> r, w |-> w]
       /\ fn_out' = [sink |-> save_hashes(old, name, digest, r, w),
                     ok |-> save_hashes_returns(old, r, w)]
  /\ fn' = "save_hashes"
  /\ UNCHANGED allButCall

\* ------------------------------------------- Downloader.validate_file_size
RECURSIVE Strings(_, _)
Strings(chars, n) ==
  IF n = 0 THEN {<< >>}
  ELSE LET shorter == Strings(chars, n - 1)
       IN  shorter \cup {Append(t, c) : t \in {u \in shorter : Len(u) = n - 1},
                                        c \in chars}

\* n zeros
Zeros(n) == [i \in 1..n |-> "0"]

\* The ceilings validate_file_size is called with on its own: the default of
\* settings.max_file_size_mb and two other whole numbers an installation may
\* configure.
Ceilings == {1, max_file_size_mb, 128}

\* The decimal places of half the gap between a ceiling and the next double
\* above it: 2^-53 for 1, 2^-49 for 20 and 2^-46 for 128.
HalfSpacing(limit) ==
  CASE limit = 1 ->
         <<
           "0", "0", "0", "0", "0", "0", "0", "0", "0", "0", "0", "0", "0",
           "0", "0", "1", "1", "1", "0", "2", "2", "3", "0", "2", "4", "6",
           "2", "5", "1", "5", "6", "5", "4", "0", "4", "2", "3", "6", "3",
           "1", "6", "6", "8", "0", "9", "0", "8", "2", "0", "3", "1", "2",
           "5" >>
    [] limit = 20 ->
         <<
           "0", "0", "0", "0", "0", "0", "0", "0", "0", "0", "0", "0", "0",
           "0", "1", "7", "7", "6", "3", "5", "6", "8", "3", "9", "4", "0",
           "0", "2", "5", "0", "4", "6", "4", "6", "7", "7", "8", "1", "0",
           "6", "6", "8", "9", "4", "5", "3", "1", "2", "5" >>
    [] limit = 128 ->
         <<
           "0", "0", "0", "0", "0", "0", "0", "0", "0", "0", "0", "0", "0",
           "1", "4", "2", "1", "0", "8", "5", "4", "7", "1", "5", "2", "0",
           "2", "0", "0", "3", "7", "1", "7", "4", "2", "2", "4", "8", "5",
           "3", "5", "1", "5", "6", "2", "5" >>

\* Sizes beyond the short ones of SizeStrings.
\* With more digits than a double keeps, or than fit a 32-bit integer:
\* 20.00000000000001 MB, 20.000000000000001 MB, 20.000000000000002 MB,
\* 1.0000000000000001 MB, 1.0000000000000002 MB, 128.00000000000001 MB,
\* 128.00000000000002 MB and 2147483648 MB.
\* Next to the value float() rounds down to a ceiling c: c and half the gap,
\* and for 20 also one unit less in the last place, and a little more,
\* written two, six and twelve places further on.
\* With digits outside ASCII: thirty in Arabic-Indic digits, twenty-five in
\* fullwidth, in mixed and in Devanagari digits, three and a half, 25 with a
\* superscript two, a circled three, and a superscript two of gigabytes.
LongSizes ==
  { <<"2", "0", ".">> \o Zeros(13) \o <<"1", " ", "MB">>,
    <<"2", "0", ".">> \o Zeros(14) \o <<"1", " ", "MB">>,
    <<"2", "0", ".">> \o Zeros(14) \o <<"2", " ", "MB">>,
    <<"1", ".">> \o Zeros(15) \o <<"1", " ", "MB">>,
    <<"1", ".">> \o Zeros(15) \o <<"2", " ", "MB">>,
    <<"1", "2", "8", ".">> \o Zeros(13) \o <<"1", " ", "MB">>,
    <<"1", "2", "8", ".">> \o Zeros(13) \o <<"2", " ", "MB">>,
    <<"2", "1", "4", "7", "4", "8", "3", "6", "4", "8", " ", "MB">>,
    <<"1", ".">> \o HalfSpacing(1) \o <<" ", "MB">>,
    <<"1", ".">> \o HalfSpacing(1) \o <<"1", " ", "MB">>,
    <<"1", "2", "8", ".">> \o HalfSpacing(128) \o <<" ", "MB">>,
    <<"1", "2", "8", ".">> \o HalfSpacing(128) \o <<"1", " ", "MB">>,
    <<"2", "0", ".">> \o HalfSpacing(20) \o <<" ", "MB">>,
    <<"2", "0", ".">> \o SubSeq(HalfSpacing(20), 1, 48) \o <<"4", " ", "MB">>,
    <<"2", "0", ".">> \o HalfSpacing(20) \o <<"0", "1", " ", "MB">>,
    <<"2", "0", ".">> \o HalfSpacing(20) \o Zeros(5) \o <<"1", " ", "MB">>,
    <<"2", "0", ".">> \o HalfSpacing(20) \o Zeros(11) \o <<"1", " ", "MB">>,
    <<"U+0663", "U+0660", " ", "MB">>,
    <<"U+FF12", "U+FF15", " ", "MB">>,
    <<"2", "U+0665", " ", "MB">>,
    <<"U+0968", "U+096B", " ", "MB">>,
    <<"U+0663", ".", "U+0665", " ", "MB">>,
    <<"2", "5", "U+00B2", " ", "MB">>,
    <<"U+2462", " ", "MB">>,
    <<"U+00B2", " ", "GB">> }

\* validate_file_size(file_size) under any of the ceilings, on every string
\* of up to MaxSizeLen characters over digits, the dot, the blank, the two
\* unit markers and a letter that is none of them, and on the longer ones of
\* LongSizes
CallValidate ==
  /\ fn = "none"
  /\ \E s \in Strings({"0", "1", "2", ".", " ", "MB", "GB", "x"}, MaxSizeLen)
                \cup LongSizes,
        max \in Ceilings :
       /\ fn_in' = [file_size |-> s, max |-> max]
       /\ fn_out' = [result |-> validate_file_size(s, max),
                     error |-> size_error(s, max)]
  /\ fn' = "validate_file_size"
  /\ UNCHANGED allButCall

\* --------------------------------------- DatoidCrawler.get_parsed_file_info
\* An item's text is a sequence of characters, "\n" being the line break;
\* NoText is the None that get_attribute("text") returns for a missing
\* attribute.
NoText == <<"None">>
Unknown == <<"Unknown", "Unknown", "Unknown">>

\* str.split(sep): the pieces between the separators, empty ones included
RECURSIVE split(_, _)
split(s, sep) ==
  IF \A i \in 1..Len(s) : s[i] # sep THEN <<s>>
  ELSE LET k == CHOOSE i \in 1..Len(s) :
                  s[i] = sep /\ \A j \in 1..(i - 1) : s[j] # sep
       IN  <<SubSeq(s, 1, k - 1)>> \o split(SubSeq(s, k + 1, Len(s)), sep)

\* str.isspace(): the blank, the line break, tab, carriage return and form
\* feed, and by their code points line tabulation, the four separators
\* U+001C to U+001F, next line, the no-break space and the spaces of the
\* general punctuation block; a control character is written by its escape
\* or by its code point.
isspace ==
  { " ", "\n", "\t", "\r", "\f", "U+0009", "U+000B", "U+000C", "U+000D",
    "U+001C", "U+001D", "U+001E", "U+001F", "U+0085", "U+00A0", "U+1680",
    "U+2000", "U+2001", "U+2002", "U+2003", "U+2004", "U+2005", "U+2006",
    "U+2007", "U+2008", "U+2009", "U+200A", "U+2028", "U+2029", "U+202F",
    "U+205F", "U+3000" }

IsSpace(c) == c \in isspace

\* str.strip(): without the white space at both ends
RECURSIVE strip(_)
strip(s) ==
  IF Len(s) = 0 THEN s
  ELSE IF IsSpace(s[1]) THEN strip(Tail(s))
  ELSE IF IsSpace(s[Len(s)]) THEN strip(SubSeq(s, 1, Len(s) - 1))
  ELSE s

RECURSIVE Stripped(_)
Stripped(items) ==
  IF Len(items) = 0 THEN << >>
  ELSE <<strip(items[1])>> \o Stripped(Tail(items))

\* line 108: [item.strip() for item in file_info.split("\n") if item.strip()]
cleared_data(file_info) ==
  SelectSeq(Stripped(split(file_info, "\n")), LAMBDA item : Len(item) > 0)

\* (a faulty variant of get_parsed_file_info: the exception of a failed parse
\* is not caught)
get_parsed_file_info_uncaught(file_info) ==
  IF file_info = NoText THEN <<"raised">>
  ELSE LET items == cleared_data(file_info)
       IN  IF Len(items) < 2 THEN <<"raised">>
           ELSE <<items[Len(items)], items[1], items[Len(items) - 1]>>

\* lines 107-116: (title, extension, size); None has no split, and with fewer
\* than two items cleared_items[0] or cleared_items[-2] raises IndexError: both
\* end in the handler, which returns the sentinel triple.
get_parsed_file_info(file_info) ==
  IF file_info = NoText THEN Unknown
  ELSE LET items == cleared_data(file_info)
       IN  IF Len(items) < 2 THEN Unknown
           ELSE <<items[Len(items)], items[1], items[Len(items) - 1]>>

\* get_parsed_file_info(file_info) on any text: those of up to MaxInfoLen
\* characters over two letters, the blank and the line break; the missing
\* text; and texts with other white space: a tab and a carriage return around
\* a line, a no-break space before one, a line that holds a form feed only,
\* and a zero width space (U+200B), which is not white space.
CallParse ==
  /\ fn = "none"
  /\ \E t \in Strings({"a", "b", " ", "\n"}, MaxInfoLen)
                \cup { NoText,
                       <<"\t", "a", "\r", "\n", "b">>,
                       <<"a", "\n", "U+00A0", "b", "U+2003">>,
                       <<"a", "\n", "\f", "\n", "b">>,
                       <<"a", "\n", "U+200B", "\n", "b">> } :
       /\ fn_in' = t
       /\ fn_out' = get_parsed_file_info(t)
  /\ fn' = "get_parsed_file_info"
  /\ UNCHANGED allButCall

\* ------------------------------------------------ Downloader._get_file_name
\* A header value and a URL are sequences of characters; "filename=" is kept
\* as one token, which is all the substring test and the split look at.
\* NoHeader is the None of a header the response does not have.
NoHeader == <<"None">>

\* s.split(sep)[-1]: what follows the last sep (all of s without one)
after_last(s, sep) ==
  LET pieces == split(s, sep) IN pieces[Len(pieces)]

IsQuote(c) == c \in {"\"", "'"}

\* s.strip("\"'"): without the quote characters at both ends
RECURSIVE strip_quotes(_)
strip_quotes(s) ==
  IF Len(s) = 0 THEN s
  ELSE IF IsQuote(s[1]) THEN strip_quotes(Tail(s))
  ELSE IF IsQuote(s[Len(s)]) THEN strip_quotes(SubSeq(s, 1, Len(s) - 1))
  ELSE s

\* mimetypes: the content types the module knows, from its own table and
\* the host's /etc/mime.types, each with the extension guess_extension gives
\* for it (written without its dot). A content type is a sequence of
\* characters. The types the table holds with a capital letter are left
\* out: guess_extension looks a type up in lower case and never finds them.
types_map_inv ==
  { << <<"a", "p", "p", "l", "i", "c", "a", "t", "i", "o", "n", "/", "a",
    "n", "d", "r", "e", "w", "-", "i", "n", "s", "e", "t">>, "ez" >>, <<
    <<"a", "p", "p", "l", "i", "c", "a", "t", "i", "o", "n", "/", "a", "n",
    "n", "o", "d", "e", "x">>, "anx" >>, << <<"a", "p", "p", "l", "i", "c",
    "a", "t", "i", "o", "n", "/", "a", "t", "o", "m", "+", "x", "m", "l">>,
    "atom" >>, << <<"a", "p", "p", "l", "i", "c", "a", "t", "i", "o", "n",
    "/", "a", "t", "o", "m", "c", "a", "t", "+", "x", "m", "l">>, "atomcat"
    >>, << <<"a", "p", "p", "l", "i", "c", "a", "t", "i", "o", "n", "/",
    "a", "t", "o", "m", "d", "e", "l", "e", "t", "e", "d", "+", "x", "m",
    "l">>, "atomdeleted" >>, << <<"a", "p", "p", "l", "i", "c", "a", "t",
    "i", "o", "n", "/", "a", "t", "o", "m", "s", "e", "r", "v", "+", "x",
    "m", "l">>, "atomsrv" >>, << <<"a", "p", "p", "l", "i", "c", "a", "t",
    "i", "o", "n", "/", "a", "t", "o", "m", "s", "v", "c", "+", "x", "m",
    "l">>, "atomsvc" >>, << <<"a", "p", "p", "l", "i", "c", "a", "t", "i",
    "o", "n", "/", "a", "t", "s", "c", "-", "d", "w", "d", "+", "x", "m",
    "l">>, "dwd" >>, << <<"a", "p", "p", "l", "i", "c", "a", "t", "i", "o",
    "n", "/", "a", "t", "s", "c", "-", "h", "e", "l", "d", "+", "x", "m",
    "l">>, "held" >>, << <<"a", "p", "p", "l", "i", "c", "a", "t", "i", "o",
    "n", "/", "a", "t", "s", "c", "-", "r", "s", "a", "t", "+", "x", "m",
    "l">>, "rsat" >>, << <<"a", "p", "p", "l", "i", "c", "a", "t", "i", "o",
    "n", "/", "a", "u", "t", "h", "-", "p", "o", "l", "i", "c", "y", "+",
    "x", "m", "l">>, "apxml" >>, << <<"a", "p", "p", "l", "i", "c", "a",
    "t", "i", "o", "n", "/", "a", "u", "t", "o", "m", "a", "t", "i", "o",
    "n", "m", "l", "-", "a", "m", "l", "x", "+", "z", "i", "p">>, "amlx" >>,
    << <<"a", "p", "p", "l", "i", "c", "a", "t", "i", "o", "n", "/", "b",
    "a", "c", "n", "e", "t", "-", "x", "d", "d", "+", "z", "i", "p">>, "xdd"
    >>, << <<"a", "p", "p", "l", "i", "c", "a", "t", "i", "o", "n", "/",
    "b", "b", "o", "l", "i", "n">>, "lin" >>, << <<"a", "p", "p", "l", "i",
    "c", "a", "t", "i", "o", "n", "/", "c", "a", "l", "e", "n", "d", "a",
    "r", "+", "x", "m", "l">>, "xcs" >>, << <<"a", "p", "p", "l", "i", "c",
    "a", "t", "i", "o", "n", "/", "c", "b", "o", "r">>, "cbor" >>, << <<"a",
    "p", "p", "l", "i", "c", "a", "t", "i", "o", "n", "/", "c", "c", "c",
    "e", "x">>, "c3ex" >>, << <<"a", "p", "p", "l", "i", "c", "a", "t", "i",
    "o", "n", "/", "c", "c", "m", "p", "+", "x", "m", "l">>, "ccmp" >>, <<
    <<"a", "p", "p", "l", "i", "c", "a", "t", "i", "o", "n", "/", "c", "c",
    "x", "m", "l", "+", "x", "m", "l">>, "ccxml" >>, << <<"a", "p", "p",
    "l", "i", "c", "a", "t", "i", "o", "n", "/", "c", "d", "m", "i", "-",
    "c", "a", "p", "a", "b", "i", "l", "i", "t", "y">>, "cdmia" >>, <<
    <<"a", "p", "p", "l", "i", "c", "a", "t", "i", "o", "n", "/", "c", "d",
    "m", "i", "-", "c", "o", "n", "t", "a", "i", "n", "e", "r">>, "cdmic"
    >>, << <<"a", "p", "p", "l", "i", "c", "a", "t", "i", "o", "n", "/",
    "c", "d", "m", "i", "-", "d", "o", "m", "a", "i", "n">>, "cdmid" >>, <<
    <<"a", "p", "p", "l", "i", "c", "a", "t", "i", "o", "n", "/", "c", "d",
    "m", "i", "-", "o", "b", "j", "e", "c", "t">>, "cdmio" >>, << <<"a",
    "p", "p", "l", "i", "c", "a", "t", "i", "o", "n", "/", "c", "d", "m",
    "i", "-", "q", "u", "e", "u", "e">>, "cdmiq" >>, << <<"a", "p", "p",
    "l", "i", "c", "a", "t", "i", "o", "n", "/", "c", "e", "l", "l", "m",
    "l", "+", "x", "m", "l">>, "cellml" >>, << <<"a", "p", "p", "l", "i",
    "c", "a", "t", "i", "o", "n", "/", "c", "l", "r">>, "1clr" >>, << <<"a",
    "p", "p", "l", "i", "c", "a", "t", "i", "o", "n", "/", "c", "l", "u",
    "e", "_", "i", "n", "f", "o", "+", "x", "m", "l">>, "clue" >>, << <<"a",
    "p", "p", "l", "i", "c", "a", "t", "i", "o", "n", "/", "c", "m", "s">>,
    "cmsc" >>, << <<"a", "p", "p", "l", "i", "c", "a", "t", "i", "o", "n",
    "/", "c", "p", "l", "+", "x", "m", "l">>, "cpl" >>, << <<"a", "p", "p",
    "l", "i", "c", "a", "t", "i", "o", "n", "/", "c", "s", "r", "a", "t",
    "t", "r", "s">>, "csrattrs" >>, << <<"a", "p", "p", "l", "i", "c", "a",
    "t", "i", "o", "n", "/", "c", "u", "-", "s", "e", "e", "m", "e">>, "cu"
    >>, << <<"a", "p", "p", "l", "i", "c", "a", "t", "i", "o", "n", "/",
    "c", "w", "l">>, "cwl" >>, << <<"a", "p", "p", "l", "i", "c", "a", "t",
    "i", "o", "n", "/", "c", "w", "l", "+", "j", "s", "o", "n">>, "cwl.json"
    >>, << <<"a", "p", "p", "l", "i", "c", "a", "t", "i", "o", "n", "/",
    "d", "a", "s", "h", "+", "x", "m", "l">>, "mpd" >>, << <<"a", "p", "p",
    "l", "i", "c", "a", "t", "i", "o", "n", "/", "d", "a", "s", "h", "d",
    "e", "l", "t", "a">>, "mpdd" >>, << <<"a", "p", "p", "l", "i", "c", "a",
    "t", "i", "o", "n", "/", "d", "a", "v", "m", "o", "u", "n", "t", "+",
    "x", "m", "l">>, "davmount" >>, << <<"a", "p", "p", "l", "i", "c", "a",
    "t", "i", "o", "n", "/", "d", "i", "c", "o", "m">>, "dcm" >>, << <<"a",
    "p", "p", "l", "i", "c", "a", "t", "i", "o", "n", "/", "d", "s", "k",
    "p", "p", "+", "x", "m", "l">>, "xmls" >>, << <<"a", "p", "p", "l", "i",
    "c", "a", "t", "i", "o", "n", "/", "d", "s", "p", "t", "y", "p", "e">>,
    "tsp" >>, << <<"a", "p", "p", "l", "i", "c", "a", "t", "i", "o", "n",
    "/", "d", "s", "s", "c", "+", "d", "e", "r">>, "dssc" >>, << <<"a", "p",
    "p", "l", "i", "c", "a", "t", "i", "o", "n", "/", "d", "s", "s", "c",
    "+", "x", "m", "l">>, "xdssc" >>, << <<"a", "p", "p", "l", "i", "c",
    "a", "t", "i", "o", "n", "/", "d", "v", "c", "s">>, "dvc" >>, << <<"a",
    "p", "p", "l", "i", "c", "a", "t", "i", "o", "n", "/", "e", "f", "i">>,
    "efi" >>, << <<"a", "p", "p", "l", "i", "c", "a", "t", "i", "o", "n",
    "/", "e", "m", "m", "a", "+", "x", "m", "l">>, "emma" >>, << <<"a", "p",
    "p", "l", "i", "c", "a", "t", "i", "o", "n", "/", "e", "m", "o", "t",
    "i", "o", "n", "m", "l", "+", "x", "m", "l">>, "emotionml" >>, << <<"a",
    "p", "p", "l", "i", "c", "a", "t", "i", "o", "n", "/", "e", "p", "u",
    "b", "+", "z", "i", "p">>, "epub" >>, << <<"a", "p", "p", "l", "i", "c",
    "a", "t", "i", "o", "n", "/", "e", "x", "i">>, "exi" >>, << <<"a", "p",
    "p", "l", "i", "c", "a", "t", "i", "o", "n", "/", "e", "x", "p", "r",
    "e", "s", "s">>, "exp" >>, << <<"a", "p", "p", "l", "i", "c", "a", "t",
    "i", "o", "n", "/", "f", "a", "s", "t", "i", "n", "f", "o", "s", "e",
    "t">>, "finf" >>, << <<"a", "p", "p", "l", "i", "c", "a", "t", "i", "o",
    "n", "/", "f", "d", "f">>, "fdf" >>, << <<"a", "p", "p", "l", "i", "c",
    "a", "t", "i", "o", "n", "/", "f", "d", "t", "+", "x", "m", "l">>, "fdt"
    >>, << <<"a", "p", "p", "l", "i", "c", "a", "t", "i", "o", "n", "/",
    "f", "o", "n", "t", "-", "t", "d", "p", "f", "r">>, "pfr" >>, << <<"a",
    "p", "p", "l", "i", "c", "a", "t", "i", "o", "n", "/", "f", "u", "t",
    "u", "r", "e", "s", "p", "l", "a", "s", "h">>, "spl" >>, << <<"a", "p",
    "p", "l", "i", "c", "a", "t", "i", "o", "n", "/", "g", "e", "o", "+",
    "j", "s", "o", "n">>, "geojson" >>, << <<"a", "p", "p", "l", "i", "c",
    "a", "t", "i", "o", "n", "/", "g", "e", "o", "p", "a", "c", "k", "a",
    "g", "e", "+", "s", "q", "l", "i", "t", "e", "3">>, "gpkg" >>, << <<"a",
    "p", "p", "l", "i", "c", "a", "t", "i", "o", "n", "/", "g", "l", "t",
    "f", "-", "b", "u", "f", "f", "e", "r">>, "glbin" >>, << <<"a", "p",
    "p", "l", "i", "c", "a", "t", "i", "o", "n", "/", "g", "m", "l", "+",
    "x", "m", "l">>, "gml" >>, << <<"a", "p", "p", "l", "i", "c", "a", "t",
    "i", "o", "n", "/", "g", "z", "i", "p">>, "gz" >>, << <<"a", "p", "p",
    "l", "i", "c", "a", "t", "i", "o", "n", "/", "h", "t", "a">>, "hta" >>,
    << <<"a", "p", "p", "l", "i", "c", "a", "t", "i", "o", "n", "/", "h",
    "y", "p", "e", "r", "s", "t", "u", "d", "i", "o">>, "stk" >>, << <<"a",
    "p", "p", "l", "i", "c", "a", "t", "i", "o", "n", "/", "i", "n", "k",
    "m", "l", "+", "x", "m", "l">>, "ink" >>, << <<"a", "p", "p", "l", "i",
    "c", "a", "t", "i", "o", "n", "/", "i", "p", "f", "i", "x">>, "ipfix"
    >>, << <<"a", "p", "p", "l", "i", "c", "a", "t", "i", "o", "n", "/",
    "i", "t", "s", "+", "x", "m", "l">>, "its" >>, << <<"a", "p", "p", "l",
    "i", "c", "a", "t", "i", "o", "n", "/", "j", "a", "v", "a", "-", "a",
    "r", "c", "h", "i", "v", "e">>, "jar" >>, << <<"a", "p", "p", "l", "i",
    "c", "a", "t", "i", "o", "n", "/", "j", "a", "v", "a", "-", "s", "e",
    "r", "i", "a", "l", "i", "z", "e", "d", "-", "o", "b", "j", "e", "c",
    "t">>, "ser" >>, << <<"a", "p", "p", "l", "i", "c", "a", "t", "i", "o",
    "n", "/", "j", "a", "v", "a", "-", "v", "m">>, "class" >>, << <<"a",
    "p", "p", "l", "i", "c", "a", "t", "i", "o", "n", "/", "j", "a", "v",
    "a", "s", "c", "r", "i", "p", "t">>, "js" >>, << <<"a", "p", "p", "l",
    "i", "c", "a", "t", "i", "o", "n", "/", "j", "r", "d", "+", "j", "s",
    "o", "n">>, "jrd" >>, << <<"a", "p", "p", "l", "i", "c", "a", "t", "i",
    "o", "n", "/", "j", "s", "o", "n">>, "json" >>, << <<"a", "p", "p", "l",
    "i", "c", "a", "t", "i", "o", "n", "/", "j", "s", "o", "n", "-", "p",
    "a", "t", "c", "h", "+", "j", "s", "o", "n">>, "json-patch" >>, <<
    <<"a", "p", "p", "l", "i", "c", "a", "t", "i", "o", "n", "/", "l", "d",
    "+", "j", "s", "o", "n">>, "jsonld" >>, << <<"a", "p", "p", "l", "i",
    "c", "a", "t", "i", "o", "n", "/", "l", "g", "r", "+", "x", "m", "l">>,
    "lgr" >>, << <<"a", "p", "p", "l", "i", "c", "a", "t", "i", "o", "n",
    "/", "l", "i", "n", "k", "-", "f", "o", "r", "m", "a", "t">>, "wlnk" >>,
    << <<"a", "p", "p", "l", "i", "c", "a", "t", "i", "o", "n", "/", "l",
    "o", "s", "t", "+", "x", "m", "l">>, "lostxml" >>, << <<"a", "p", "p",
    "l", "i", "c", "a", "t", "i", "o", "n", "/", "l", "o", "s", "t", "s",
    "y", "n", "c", "+", "x", "m", "l">>, "lostsyncxml" >>, << <<"a", "p",
    "p", "l", "i", "c", "a", "t", "i", "o", "n", "/", "l", "p", "f", "+",
    "z", "i", "p">>, "lpf" >>, << <<"a", "p", "p", "l", "i", "c", "a", "t",
    "i", "o", "n", "/", "m", "3", "g">>, "m3g" >>, << <<"a", "p", "p", "l",
    "i", "c", "a", "t", "i", "o", "n", "/", "m", "a", "c", "-", "b", "i",
    "n", "h", "e", "x", "4", "0">>, "hqx" >>, << <<"a", "p", "p", "l", "i",
    "c", "a", "t", "i", "o", "n", "/", "m", "a", "c", "-", "c", "o", "m",
    "p", "a", "c", "t", "p", "r", "o">>, "cpt" >>, << <<"a", "p", "p", "l",
    "i", "c", "a", "t", "i", "o", "n", "/", "m", "a", "d", "s", "+", "x",
    "m", "l">>, "mads" >>, << <<"a", "p", "p", "l", "i", "c", "a", "t", "i",
    "o", "n", "/", "m", "a", "n", "i", "f", "e", "s", "t", "+", "j", "s",
    "o", "n">>, "webmanifest" >>, << <<"a", "p", "p", "l", "i", "c", "a",
    "t", "i", "o", "n", "/", "m", "a", "r", "c">>, "mrc" >>, << <<"a", "p",
    "p", "l", "i", "c", "a", "t", "i", "o", "n", "/", "m", "a", "r", "c",
    "x", "m", "l", "+", "x", "m", "l">>, "mrcx" >>, << <<"a", "p", "p", "l",
    "i", "c", "a", "t", "i", "o", "n", "/", "m", "a", "t", "h", "e", "m",
    "a", "t", "i", "c", "a">>, "ma" >>, << <<"a", "p", "p", "l", "i", "c",
    "a", "t", "i", "o", "n", "/", "m", "a", "t", "h", "m", "l", "+", "x",
    "m", "l">>, "mml" >>, << <<"a", "p", "p", "l", "i", "c", "a", "t", "i",
    "o", "n", "/", "m", "b", "o", "x">>, "mbox" >>, << <<"a", "p", "p", "l",
    "i", "c", "a", "t", "i", "o", "n", "/", "m", "e", "t", "a", "l", "i",
    "n", "k", "4", "+", "x", "m", "l">>, "meta4" >>, << <<"a", "p", "p",
    "l", "i", "c", "a", "t", "i", "o", "n", "/", "m", "e", "t", "s", "+",
    "x", "m", "l">>, "mets" >>, << <<"a", "p", "p", "l", "i", "c", "a", "t",
    "i", "o", "n", "/", "m", "m", "t", "-", "a", "e", "i", "+", "x", "m",
    "l">>, "maei" >>, << <<"a", "p", "p", "l", "i", "c", "a", "t", "i", "o",
    "n", "/", "m", "m", "t", "-", "u", "s", "d", "+", "x", "m", "l">>,
    "musd" >>, << <<"a", "p", "p", "l", "i", "c", "a", "t", "i", "o", "n",
    "/", "m", "o", "d", "s", "+", "x", "m", "l">>, "mods" >>, << <<"a", "p",
    "p", "l", "i", "c", "a", "t", "i", "o", "n", "/", "m", "p", "2", "1">>,
    "m21" >>, << <<"a", "p", "p", "l", "i", "c", "a", "t", "i", "o", "n",
    "/", "m", "s", "a", "c", "c", "e", "s", "s">>, "mdb" >>, << <<"a", "p",
    "p", "l", "i", "c", "a", "t", "i", "o", "n", "/", "m", "s", "w", "o",
    "r", "d">>, "doc" >>, << <<"a", "p", "p", "l", "i", "c", "a", "t", "i",
    "o", "n", "/", "m", "x", "f">>, "mxf" >>, << <<"a", "p", "p", "l", "i",
    "c", "a", "t", "i", "o", "n", "/", "n", "-", "q", "u", "a", "d", "s">>,
    "nq" >>, << <<"a", "p", "p", "l", "i", "c", "a", "t", "i", "o", "n",
    "/", "n", "-", "t", "r", "i", "p", "l", "e", "s">>, "nt" >>, << <<"a",
    "p", "p", "l", "i", "c", "a", "t", "i", "o", "n", "/", "o", "c", "s",
    "p", "-", "r", "e", "q", "u", "e", "s", "t">>, "orq" >>, << <<"a", "p",
    "p", "l", "i", "c", "a", "t", "i", "o", "n", "/", "o", "c", "s", "p",
    "-", "r", "e", "s", "p", "o", "n", "s", "e">>, "ors" >>, << <<"a", "p",
    "p", "l", "i", "c", "a", "t", "i", "o", "n", "/", "o", "c", "t", "e",
    "t", "-", "s", "t", "r", "e", "a", "m">>, "bin" >>, << <<"a", "p", "p",
    "l", "i", "c", "a", "t", "i", "o", "n", "/", "o", "d", "a">>, "oda" >>,
    << <<"a", "p", "p", "l", "i", "c", "a", "t", "i", "o", "n", "/", "o",
    "e", "b", "p", "s", "-", "p", "a", "c", "k", "a", "g", "e", "+", "x",
    "m", "l">>, "opf" >>, << <<"a", "p", "p", "l", "i", "c", "a", "t", "i",
    "o", "n", "/", "o", "g", "g">>, "ogx" >>, << <<"a", "p", "p", "l", "i",
    "c", "a", "t", "i", "o", "n", "/", "o", "n", "e", "n", "o", "t", "e">>,
    "one" >>, << <<"a", "p", "p", "l", "i", "c", "a", "t", "i", "o", "n",
    "/", "o", "x", "p", "s">>, "oxps" >>, << <<"a", "p", "p", "l", "i", "c",
    "a", "t", "i", "o", "n", "/", "p", "2", "1">>, "p21" >>, << <<"a", "p",
    "p", "l", "i", "c", "a", "t", "i", "o", "n", "/", "p", "2", "p", "-",
    "o", "v", "e", "r", "l", "a", "y", "+", "x", "m", "l">>, "relo" >>, <<
    <<"a", "p", "p", "l", "i", "c", "a", "t", "i", "o", "n", "/", "p", "d",
    "f">>, "pdf" >>, << <<"a", "p", "p", "l", "i", "c", "a", "t", "i", "o",
    "n", "/", "p", "e", "m", "-", "c", "e", "r", "t", "i", "f", "i", "c",
    "a", "t", "e", "-", "c", "h", "a", "i", "n">>, "pem" >>, << <<"a", "p",
    "p", "l", "i", "c", "a", "t", "i", "o", "n", "/", "p", "g", "p", "-",
    "e", "n", "c", "r", "y", "p", "t", "e", "d">>, "pgp" >>, << <<"a", "p",
    "p", "l", "i", "c", "a", "t", "i", "o", "n", "/", "p", "g", "p", "-",
    "k", "e", "y", "s">>, "asc" >>, << <<"a", "p", "p", "l", "i", "c", "a",
    "t", "i", "o", "n", "/", "p", "g", "p", "-", "s", "i", "g", "n", "a",
    "t", "u", "r", "e">>, "sig" >>, << <<"a", "p", "p", "l", "i", "c", "a",
    "t", "i", "o", "n", "/", "p", "i", "c", "s", "-", "r", "u", "l", "e",
    "s">>, "prf" >>, << <<"a", "p", "p", "l", "i", "c", "a", "t", "i", "o",
    "n", "/", "p", "k", "c", "s", "1", "0">>, "p10" >>, << <<"a", "p", "p",
    "l", "i", "c", "a", "t", "i", "o", "n", "/", "p", "k", "c", "s", "1",
    "2">>, "p12" >>, << <<"a", "p", "p", "l", "i", "c", "a", "t", "i", "o",
    "n", "/", "p", "k", "c", "s", "7", "-", "m", "i", "m", "e">>, "p7c" >>,
    << <<"a", "p", "p", "l", "i", "c", "a", "t", "i", "o", "n", "/", "p",
    "k", "c", "s", "7", "-", "s", "i", "g", "n", "a", "t", "u", "r", "e">>,
    "p7s" >>, << <<"a", "p", "p", "l", "i", "c", "a", "t", "i", "o", "n",
    "/", "p", "k", "c", "s", "8">>, "p8" >>, << <<"a", "p", "p", "l", "i",
    "c", "a", "t", "i", "o", "n", "/", "p", "k", "c", "s", "8", "-", "e",
    "n", "c", "r", "y", "p", "t", "e", "d">>, "p8e" >>, << <<"a", "p", "p",
    "l", "i", "c", "a", "t", "i", "o", "n", "/", "p", "k", "i", "x", "-",
    "a", "t", "t", "r", "-", "c", "e", "r", "t">>, "ac" >>, << <<"a", "p",
    "p", "l", "i", "c", "a", "t", "i", "o", "n", "/", "p", "k", "i", "x",
    "-", "c", "e", "r", "t">>, "cer" >>, << <<"a", "p", "p", "l", "i", "c",
    "a", "t", "i", "o", "n", "/", "p", "k", "i", "x", "-", "c", "r", "l">>,
    "crl" >>, << <<"a", "p", "p", "l", "i", "c", "a", "t", "i", "o", "n",
    "/", "p", "k", "i", "x", "-", "p", "k", "i", "p", "a", "t", "h">>,
    "pkipath" >>, << <<"a", "p", "p", "l", "i", "c", "a", "t", "i", "o",
    "n", "/", "p", "k", "i", "x", "c", "m", "p">>, "pki" >>, << <<"a", "p",
    "p", "l", "i", "c", "a", "t", "i", "o", "n", "/", "p", "o", "s", "t",
    "s", "c", "r", "i", "p", "t">>, "ps" >>, << <<"a", "p", "p", "l", "i",
    "c", "a", "t", "i", "o", "n", "/", "p", "r", "o", "v", "e", "n", "a",
    "n", "c", "e", "+", "x", "m", "l">>, "provx" >>, << <<"a", "p", "p",
    "l", "i", "c", "a", "t", "i", "o", "n", "/", "p", "r", "s", ".", "c",
    "w", "w">>, "cw" >>, << <<"a", "p", "p", "l", "i", "c", "a", "t", "i",
    "o", "n", "/", "p", "r", "s", ".", "h", "p", "u", "b", "+", "z", "i",
    "p">>, "hpub" >>, << <<"a", "p", "p", "l", "i", "c", "a", "t", "i", "o",
    "n", "/", "p", "r", "s", ".", "n", "p", "r", "e", "n", "d">>, "rnd" >>,
    << <<"a", "p", "p", "l", "i", "c", "a", "t", "i", "o", "n", "/", "p",
    "r", "s", ".", "r", "d", "f", "-", "x", "m", "l", "-", "c", "r", "y",
    "p", "t">>, "rdf-crypt" >>, << <<"a", "p", "p", "l", "i", "c", "a", "t",
    "i", "o", "n", "/", "p", "r", "s", ".", "x", "s", "f", "+", "x", "m",
    "l">>, "xsf" >>, << <<"a", "p", "p", "l", "i", "c", "a", "t", "i", "o",
    "n", "/", "p", "s", "k", "c", "+", "x", "m", "l">>, "pskcxml" >>, <<
    <<"a", "p", "p", "l", "i", "c", "a", "t", "i", "o", "n", "/", "r", "d",
    "f", "+", "x", "m", "l">>, "rdf" >>, << <<"a", "p", "p", "l", "i", "c",
    "a", "t", "i", "o", "n", "/", "r", "e", "g", "i", "n", "f", "o", "+",
    "x", "m", "l">>, "rif" >>, << <<"a", "p", "p", "l", "i", "c", "a", "t",
    "i", "o", "n", "/", "r", "e", "l", "a", "x", "-", "n", "g", "-", "c",
    "o", "m", "p", "a", "c", "t", "-", "s", "y", "n", "t", "a", "x">>, "rnc"
    >>, << <<"a", "p", "p", "l", "i", "c", "a", "t", "i", "o", "n", "/",
    "r", "e", "s", "o", "u", "r", "c", "e", "-", "l", "i", "s", "t", "s",
    "+", "x", "m", "l">>, "rl" >>, << <<"a", "p", "p", "l", "i", "c", "a",
    "t", "i", "o", "n", "/", "r", "e", "s", "o", "u", "r", "c", "e", "-",
    "l", "i", "s", "t", "s", "-", "d", "i", "f", "f", "+", "x", "m", "l">>,
    "rld" >>, << <<"a", "p", "p", "l", "i", "c", "a", "t", "i", "o", "n",
    "/", "r", "f", "c", "+", "x", "m", "l">>, "rfcxml" >>, << <<"a", "p",
    "p", "l", "i", "c", "a", "t", "i", "o", "n", "/", "r", "l", "s", "-",
    "s", "e", "r", "v", "i", "c", "e", "s", "+", "x", "m", "l">>, "rs" >>,
    << <<"a", "p", "p", "l", "i", "c", "a", "t", "i", "o", "n", "/", "r",
    "o", "u", "t", "e", "-", "a", "p", "d", "+", "x", "m", "l">>, "rapd" >>,
    << <<"a", "p", "p", "l", "i", "c", "a", "t", "i", "o", "n", "/", "r",
    "o", "u", "t", "e", "-", "s", "-", "t", "s", "i", "d", "+", "x", "m",
    "l">>, "sls" >>, << <<"a", "p", "p", "l", "i", "c", "a", "t", "i", "o",
    "n", "/", "r", "o", "u", "t", "e", "-", "u", "s", "d", "+", "x", "m",
    "l">>, "rusd" >>, << <<"a", "p", "p", "l", "i", "c", "a", "t", "i", "o",
    "n", "/", "r", "p", "k", "i", "-", "g", "h", "o", "s", "t", "b", "u",
    "s", "t", "e", "r", "s">>, "gbr" >>, << <<"a", "p", "p", "l", "i", "c",
    "a", "t", "i", "o", "n", "/", "r", "p", "k", "i", "-", "m", "a", "n",
    "i", "f", "e", "s", "t">>, "mft" >>, << <<"a", "p", "p", "l", "i", "c",
    "a", "t", "i", "o", "n", "/", "r", "p", "k", "i", "-", "r", "o", "a">>,
    "roa" >>, << <<"a", "p", "p", "l", "i", "c", "a", "t", "i", "o", "n",
    "/", "r", "t", "f">>, "rtf" >>, << <<"a", "p", "p", "l", "i", "c", "a",
    "t", "i", "o", "n", "/", "s", "a", "r", "i", "f", "+", "j", "s", "o",
    "n">>, "sarif" >>, << <<"a", "p", "p", "l", "i", "c", "a", "t", "i",
    "o", "n", "/", "s", "a", "r", "i", "f", "-", "e", "x", "t", "e", "r",
    "n", "a", "l", "-", "p", "r", "o", "p", "e", "r", "t", "i", "e", "s",
    "+", "j", "s", "o", "n">>, "sarif-external-properties" >>, << <<"a",
    "p", "p", "l", "i", "c", "a", "t", "i", "o", "n", "/", "s", "c", "i",
    "m", "+", "j", "s", "o", "n">>, "scim" >>, << <<"a", "p", "p", "l", "i",
    "c", "a", "t", "i", "o", "n", "/", "s", "c", "v", "p", "-", "c", "v",
    "-", "r", "e", "q", "u", "e", "s", "t">>, "scq" >>, << <<"a", "p", "p",
    "l", "i", "c", "a", "t", "i", "o", "n", "/", "s", "c", "v", "p", "-",
    "c", "v", "-", "r", "e", "s", "p", "o", "n", "s", "e">>, "scs" >>, <<
    <<"a", "p", "p", "l", "i", "c", "a", "t", "i", "o", "n", "/", "s", "c",
    "v", "p", "-", "v", "p", "-", "r", "e", "q", "u", "e", "s", "t">>, "spq"
    >>, << <<"a", "p", "p", "l", "i", "c", "a", "t", "i", "o", "n", "/",
    "s", "c", "v", "p", "-", "v", "p", "-", "r", "e", "s", "p", "o", "n",
    "s", "e">>, "spp" >>, << <<"a", "p", "p", "l", "i", "c", "a", "t", "i",
    "o", "n", "/", "s", "d", "p">>, "sdp" >>, << <<"a", "p", "p", "l", "i",
    "c", "a", "t", "i", "o", "n", "/", "s", "e", "n", "m", "l", "+", "c",
    "b", "o", "r">>, "senmlc" >>, << <<"a", "p", "p", "l", "i", "c", "a",
    "t", "i", "o", "n", "/", "s", "e", "n", "m", "l", "+", "j", "s", "o",
    "n">>, "senml" >>, << <<"a", "p", "p", "l", "i", "c", "a", "t", "i",
    "o", "n", "/", "s", "e", "n", "m", "l", "+", "x", "m", "l">>, "senmlx"
    >>, << <<"a", "p", "p", "l", "i", "c", "a", "t", "i", "o", "n", "/",
    "s", "e", "n", "m", "l", "-", "e", "t", "c", "h", "+", "c", "b", "o",
    "r">>, "senml-etchc" >>, << <<"a", "p", "p", "l", "i", "c", "a", "t",
    "i", "o", "n", "/", "s", "e", "n", "m", "l", "-", "e", "t", "c", "h",
    "+", "j", "s", "o", "n">>, "senml-etchj" >>, << <<"a", "p", "p", "l",
    "i", "c", "a", "t", "i", "o", "n", "/", "s", "e", "n", "m", "l", "-",
    "e", "x", "i">>, "senmle" >>, << <<"a", "p", "p", "l", "i", "c", "a",
    "t", "i", "o", "n", "/", "s", "e", "n", "s", "m", "l", "+", "c", "b",
    "o", "r">>, "sensmlc" >>, << <<"a", "p", "p", "l", "i", "c", "a", "t",
    "i", "o", "n", "/", "s", "e", "n", "s", "m", "l", "+", "j", "s", "o",
    "n">>, "sensml" >>, << <<"a", "p", "p", "l", "i", "c", "a", "t", "i",
    "o", "n", "/", "s", "e", "n", "s", "m", "l", "+", "x", "m", "l">>,
    "sensmlx" >>, << <<"a", "p", "p", "l", "i", "c", "a", "t", "i", "o",
    "n", "/", "s", "e", "n", "s", "m", "l", "-", "e", "x", "i">>, "sensmle"
    >>, << <<"a", "p", "p", "l", "i", "c", "a", "t", "i", "o", "n", "/",
    "s", "g", "m", "l", "-", "o", "p", "e", "n", "-", "c", "a", "t", "a",
    "l", "o", "g">>, "soc" >>, << <<"a", "p", "p", "l", "i", "c", "a", "t",
    "i", "o", "n", "/", "s", "h", "f", "+", "x", "m", "l">>, "shf" >>, <<
    <<"a", "p", "p", "l", "i", "c", "a", "t", "i", "o", "n", "/", "s", "i",
    "e", "v", "e">>, "siv" >>, << <<"a", "p", "p", "l", "i", "c", "a", "t",
    "i", "o", "n", "/", "s", "i", "m", "p", "l", "e", "-", "f", "i", "l",
    "t", "e", "r", "+", "x", "m", "l">>, "cl" >>, << <<"a", "p", "p", "l",
    "i", "c", "a", "t", "i", "o", "n", "/", "s", "m", "i", "l", "+", "x",
    "m", "l">>, "smil" >>, << <<"a", "p", "p", "l", "i", "c", "a", "t", "i",
    "o", "n", "/", "s", "p", "a", "r", "q", "l", "-", "q", "u", "e", "r",
    "y">>, "rq" >>, << <<"a", "p", "p", "l", "i", "c", "a", "t", "i", "o",
    "n", "/", "s", "p", "a", "r", "q", "l", "-", "r", "e", "s", "u", "l",
    "t", "s", "+", "x", "m", "l">>, "srx" >>, << <<"a", "p", "p", "l", "i",
    "c", "a", "t", "i", "o", "n", "/", "s", "p", "d", "x", "+", "j", "s",
    "o", "n">>, "spdx.json" >>, << <<"a", "p", "p", "l", "i", "c", "a", "t",
    "i", "o", "n", "/", "s", "q", "l">>, "sql" >>, << <<"a", "p", "p", "l",
    "i", "c", "a", "t", "i", "o", "n", "/", "s", "r", "g", "s">>, "gram" >>,
    << <<"a", "p", "p", "l", "i", "c", "a", "t", "i", "o", "n", "/", "s",
    "r", "g", "s", "+", "x", "m", "l">>, "grxml" >>, << <<"a", "p", "p",
    "l", "i", "c", "a", "t", "i", "o", "n", "/", "s", "r", "u", "+", "x",
    "m", "l">>, "sru" >>, << <<"a", "p", "p", "l", "i", "c", "a", "t", "i",
    "o", "n", "/", "s", "s", "m", "l", "+", "x", "m", "l">>, "ssml" >>, <<
    <<"a", "p", "p", "l", "i", "c", "a", "t", "i", "o", "n", "/", "s", "t",
    "i", "x", "+", "j", "s", "o", "n">>, "stix" >>, << <<"a", "p", "p", "l",
    "i", "c", "a", "t", "i", "o", "n", "/", "s", "w", "i", "d", "+", "c",
    "b", "o", "r">>, "coswid" >>, << <<"a", "p", "p", "l", "i", "c", "a",
    "t", "i", "o", "n", "/", "s", "w", "i", "d", "+", "x", "m", "l">>,
    "swidtag" >>, << <<"a", "p", "p", "l", "i", "c", "a", "t", "i", "o",
    "n", "/", "t", "a", "m", "p", "-", "a", "p", "e", "x", "-", "u", "p",
    "d", "a", "t", "e">>, "tau" >>, << <<"a", "p", "p", "l", "i", "c", "a",
    "t", "i", "o", "n", "/", "t", "a", "m", "p", "-", "a", "p", "e", "x",
    "-", "u", "p", "d", "a", "t", "e", "-", "c", "o", "n", "f", "i", "r",
    "m">>, "auc" >>, << <<"a", "p", "p", "l", "i", "c", "a", "t", "i", "o",
    "n", "/", "t", "a", "m", "p", "-", "c", "o", "m", "m", "u", "n", "i",
    "t", "y", "-", "u", "p", "d", "a", "t", "e">>, "tcu" >>, << <<"a", "p",
    "p", "l", "i", "c", "a", "t", "i", "o", "n", "/", "t", "a", "m", "p",
    "-", "c", "o", "m", "m", "u", "n", "i", "t", "y", "-", "u", "p", "d",
    "a", "t", "e", "-", "c", "o", "n", "f", "i", "r", "m">>, "cuc" >>, <<
    <<"a", "p", "p", "l", "i", "c", "a", "t", "i", "o", "n", "/", "t", "a",
    "m", "p", "-", "e", "r", "r", "o", "r">>, "ter" >>, << <<"a", "p", "p",
    "l", "i", "c", "a", "t", "i", "o", "n", "/", "t", "a", "m", "p", "-",
    "s", "e", "q", "u", "e", "n", "c", "e", "-", "a", "d", "j", "u", "s",
    "t">>, "tsa" >>, << <<"a", "p", "p", "l", "i", "c", "a", "t", "i", "o",
    "n", "/", "t", "a", "m", "p", "-", "s", "e", "q", "u", "e", "n", "c",
    "e", "-", "a", "d", "j", "u", "s", "t", "-", "c", "o", "n", "f", "i",
    "r", "m">>, "sac" >>, << <<"a", "p", "p", "l", "i", "c", "a", "t", "i",
    "o", "n", "/", "t", "a", "m", "p", "-", "u", "p", "d", "a", "t", "e">>,
    "tur" >>, << <<"a", "p", "p", "l", "i", "c", "a", "t", "i", "o", "n",
    "/", "t", "a", "m", "p", "-", "u", "p", "d", "a", "t", "e", "-", "c",
    "o", "n", "f", "i", "r", "m">>, "tuc" >>, << <<"a", "p", "p", "l", "i",
    "c", "a", "t", "i", "o", "n", "/", "t", "d", "+", "j", "s", "o", "n">>,
    "jsontd" >>, << <<"a", "p", "p", "l", "i", "c", "a", "t", "i", "o", "n",
    "/", "t", "e", "i", "+", "x", "m", "l">>, "tei" >>, << <<"a", "p", "p",
    "l", "i", "c", "a", "t", "i", "o", "n", "/", "t", "h", "r", "a", "u",
    "d", "+", "x", "m", "l">>, "tfi" >>, << <<"a", "p", "p", "l", "i", "c",
    "a", "t", "i", "o", "n", "/", "t", "i", "m", "e", "s", "t", "a", "m",
    "p", "-", "q", "u", "e", "r", "y">>, "tsq" >>, << <<"a", "p", "p", "l",
    "i", "c", "a", "t", "i", "o", "n", "/", "t", "i", "m", "e", "s", "t",
    "a", "m", "p", "-", "r", "e", "p", "l", "y">>, "tsr" >>, << <<"a", "p",
    "p", "l", "i", "c", "a", "t", "i", "o", "n", "/", "t", "i", "m", "e",
    "s", "t", "a", "m", "p", "e", "d", "-", "d", "a", "t", "a">>, "tsd" >>,
    << <<"a", "p", "p", "l", "i", "c", "a", "t", "i", "o", "n", "/", "t",
    "m", "+", "j", "s", "o", "n">>, "tm.jsonld" >>, << <<"a", "p", "p", "l",
    "i", "c", "a", "t", "i", "o", "n", "/", "t", "r", "i", "g">>, "trig" >>,
    << <<"a", "p", "p", "l", "i", "c", "a", "t", "i", "o", "n", "/", "t",
    "t", "m", "l", "+", "x", "m", "l">>, "ttml" >>, << <<"a", "p", "p", "l",
    "i", "c", "a", "t", "i", "o", "n", "/", "u", "r", "c", "-", "g", "r",
    "p", "s", "h", "e", "e", "t", "+", "x", "m", "l">>, "gsheet" >>, <<
    <<"a", "p", "p", "l", "i", "c", "a", "t", "i", "o", "n", "/", "u", "r",
    "c", "-", "r", "e", "s", "s", "h", "e", "e", "t", "+", "x", "m", "l">>,
    "rsheet" >>, << <<"a", "p", "p", "l", "i", "c", "a", "t", "i", "o", "n",
    "/", "u", "r", "c", "-", "t", "a", "r", "g", "e", "t", "d", "e", "s",
    "c", "+", "x", "m", "l">>, "td" >>, << <<"a", "p", "p", "l", "i", "c",
    "a", "t", "i", "o", "n", "/", "u", "r", "c", "-", "u", "i", "s", "o",
    "c", "k", "e", "t", "d", "e", "s", "c", "+", "x", "m", "l">>, "uis" >>,
    << <<"a", "p", "p", "l", "i", "c", "a", "t", "i", "o", "n", "/", "v",
    "n", "d", ".", "1", "0", "0", "0", "m", "i", "n", "d", "s", ".", "d",
    "e", "c", "i", "s", "i", "o", "n", "-", "m", "o", "d", "e", "l", "+",
    "x", "m", "l">>, "1km" >>, << <<"a", "p", "p", "l", "i", "c", "a", "t",
    "i", "o", "n", "/", "v", "n", "d", ".", "3", "g", "p", "p", ".", "p",
    "i", "c", "-", "b", "w", "-", "l", "a", "r", "g", "e">>, "plb" >>, <<
    <<"a", "p", "p", "l", "i", "c", "a", "t", "i", "o", "n", "/", "v", "n",
    "d", ".", "3", "g", "p", "p", ".", "p", "i", "c", "-", "b", "w", "-",
    "s", "m", "a", "l", "l">>, "psb" >>, << <<"a", "p", "p", "l", "i", "c",
    "a", "t", "i", "o", "n", "/", "v", "n", "d", ".", "3", "g", "p", "p",
    ".", "p", "i", "c", "-", "b", "w", "-", "v", "a", "r">>, "pvb" >>, <<
    <<"a", "p", "p", "l", "i", "c", "a", "t", "i", "o", "n", "/", "v", "n",
    "d", ".", "3", "g", "p", "p", "2", ".", "s", "m", "s">>, "sms" >>, <<
    <<"a", "p", "p", "l", "i", "c", "a", "t", "i", "o", "n", "/", "v", "n",
    "d", ".", "3", "g", "p", "p", "2", ".", "t", "c", "a", "p">>, "tcap" >>,
    << <<"a", "p", "p", "l", "i", "c", "a", "t", "i", "o", "n", "/", "v",
    "n", "d", ".", "3", "l", "i", "g", "h", "t", "s", "s", "o", "f", "t",
    "w", "a", "r", "e", ".", "i", "m", "a", "g", "e", "s", "c", "a", "l">>,
    "imgcal" >>, << <<"a", "p", "p", "l", "i", "c", "a", "t", "i", "o", "n",
    "/", "v", "n", "d", ".", "a", "c", "c", "p", "a", "c", ".", "s", "i",
    "m", "p", "l", "y", ".", "a", "s", "o">>, "aso" >>, << <<"a", "p", "p",
    "l", "i", "c", "a", "t", "i", "o", "n", "/", "v", "n", "d", ".", "a",
    "c", "c", "p", "a", "c", ".", "s", "i", "m", "p", "l", "y", ".", "i",
    "m", "p">>, "imp" >>, << <<"a", "p", "p", "l", "i", "c", "a", "t", "i",
    "o", "n", "/", "v", "n", "d", ".", "a", "c", "u", "c", "o", "b", "o",
    "l">>, "acu" >>, << <<"a", "p", "p", "l", "i", "c", "a", "t", "i", "o",
    "n", "/", "v", "n", "d", ".", "a", "c", "u", "c", "o", "r", "p">>, "atc"
    >>, << <<"a", "p", "p", "l", "i", "c", "a", "t", "i", "o", "n", "/",
    "v", "n", "d", ".", "a", "d", "o", "b", "e", ".", "f", "l", "a", "s",
    "h", ".", "m", "o", "v", "i", "e">>, "swf" >>, << <<"a", "p", "p", "l",
    "i", "c", "a", "t", "i", "o", "n", "/", "v", "n", "d", ".", "a", "d",
    "o", "b", "e", ".", "f", "o", "r", "m", "s", "c", "e", "n", "t", "r",
    "a", "l", ".", "f", "c", "d", "t">>, "fcdt" >>, << <<"a", "p", "p", "l",
    "i", "c", "a", "t", "i", "o", "n", "/", "v", "n", "d", ".", "a", "d",
    "o", "b", "e", ".", "f", "x", "p">>, "fxp" >>, << <<"a", "p", "p", "l",
    "i", "c", "a", "t", "i", "o", "n", "/", "v", "n", "d", ".", "a", "d",
    "o", "b", "e", ".", "x", "d", "p", "+", "x", "m", "l">>, "xdp" >>, <<
    <<"a", "p", "p", "l", "i", "c", "a", "t", "i", "o", "n", "/", "v", "n",
    "d", ".", "a", "f", "p", "c", ".", "m", "o", "d", "c", "a">>, "list3820"
    >>, << <<"a", "p", "p", "l", "i", "c", "a", "t", "i", "o", "n", "/",
    "v", "n", "d", ".", "a", "f", "p", "c", ".", "m", "o", "d", "c", "a",
    "-", "o", "v", "e", "r", "l", "a", "y">>, "ovl" >>, << <<"a", "p", "p",
    "l", "i", "c", "a", "t", "i", "o", "n", "/", "v", "n", "d", ".", "a",
    "f", "p", "c", ".", "m", "o", "d", "c", "a", "-", "p", "a", "g", "e",
    "s", "e", "g", "m", "e", "n", "t">>, "psg" >>, << <<"a", "p", "p", "l",
    "i", "c", "a", "t", "i", "o", "n", "/", "v", "n", "d", ".", "a", "g",
    "e">>, "age" >>, << <<"a", "p", "p", "l", "i", "c", "a", "t", "i", "o",
    "n", "/", "v", "n", "d", ".", "a", "h", "e", "a", "d", ".", "s", "p",
    "a", "c", "e">>, "ahead" >>, << <<"a", "p", "p", "l", "i", "c", "a",
    "t", "i", "o", "n", "/", "v", "n", "d", ".", "a", "i", "r", "z", "i",
    "p", ".", "f", "i", "l", "e", "s", "e", "c", "u", "r", "e", ".", "a",
    "z", "f">>, "azf" >>, << <<"a", "p", "p", "l", "i", "c", "a", "t", "i",
    "o", "n", "/", "v", "n", "d", ".", "a", "i", "r", "z", "i", "p", ".",
    "f", "i", "l", "e", "s", "e", "c", "u", "r", "e", ".", "a", "z", "s">>,
    "azs" >>, << <<"a", "p", "p", "l", "i", "c", "a", "t", "i", "o", "n",
    "/", "v", "n", "d", ".", "a", "m", "a", "z", "o", "n", ".", "m", "o",
    "b", "i", "8", "-", "e", "b", "o", "o", "k">>, "azw3" >>, << <<"a", "p",
    "p", "l", "i", "c", "a", "t", "i", "o", "n", "/", "v", "n", "d", ".",
    "a", "m", "e", "r", "i", "c", "a", "n", "d", "y", "n", "a", "m", "i",
    "c", "s", ".", "a", "c", "c">>, "acc" >>, << <<"a", "p", "p", "l", "i",
    "c", "a", "t", "i", "o", "n", "/", "v", "n", "d", ".", "a", "m", "i",
    "g", "a", ".", "a", "m", "i">>, "ami" >>, << <<"a", "p", "p", "l", "i",
    "c", "a", "t", "i", "o", "n", "/", "v", "n", "d", ".", "a", "n", "d",
    "r", "o", "i", "d", ".", "o", "t", "a">>, "ota" >>, << <<"a", "p", "p",
    "l", "i", "c", "a", "t", "i", "o", "n", "/", "v", "n", "d", ".", "a",
    "n", "d", "r", "o", "i", "d", ".", "p", "a", "c", "k", "a", "g", "e",
    "-", "a", "r", "c", "h", "i", "v", "e">>, "apk" >>, << <<"a", "p", "p",
    "l", "i", "c", "a", "t", "i", "o", "n", "/", "v", "n", "d", ".", "a",
    "n", "k", "i">>, "apkg" >>, << <<"a", "p", "p", "l", "i", "c", "a", "t",
    "i", "o", "n", "/", "v", "n", "d", ".", "a", "n", "s", "e", "r", "-",
    "w", "e", "b", "-", "c", "e", "r", "t", "i", "f", "i", "c", "a", "t",
    "e", "-", "i", "s", "s", "u", "e", "-", "i", "n", "i", "t", "i", "a",
    "t", "i", "o", "n">>, "cii" >>, << <<"a", "p", "p", "l", "i", "c", "a",
    "t", "i", "o", "n", "/", "v", "n", "d", ".", "a", "n", "s", "e", "r",
    "-", "w", "e", "b", "-", "f", "u", "n", "d", "s", "-", "t", "r", "a",
    "n", "s", "f", "e", "r", "-", "i", "n", "i", "t", "i", "a", "t", "i",
    "o", "n">>, "fti" >>, << <<"a", "p", "p", "l", "i", "c", "a", "t", "i",
    "o", "n", "/", "v", "n", "d", ".", "a", "p", "a", "c", "h", "e", ".",
    "a", "r", "r", "o", "w", ".", "f", "i", "l", "e">>, "arrow" >>, <<
    <<"a", "p", "p", "l", "i", "c", "a", "t", "i", "o", "n", "/", "v", "n",
    "d", ".", "a", "p", "a", "c", "h", "e", ".", "a", "r", "r", "o", "w",
    ".", "s", "t", "r", "e", "a", "m">>, "arrows" >>, << <<"a", "p", "p",
    "l", "i", "c", "a", "t", "i", "o", "n", "/", "v", "n", "d", ".", "a",
    "p", "e", "x", "l", "a", "n", "g">>, "apexlang" >>, << <<"a", "p", "p",
    "l", "i", "c", "a", "t", "i", "o", "n", "/", "v", "n", "d", ".", "a",
    "p", "p", "l", "e", ".", "i", "n", "s", "t", "a", "l", "l", "e", "r",
    "+", "x", "m", "l">>, "dist" >>, << <<"a", "p", "p", "l", "i", "c", "a",
    "t", "i", "o", "n", "/", "v", "n", "d", ".", "a", "p", "p", "l", "e",
    ".", "k", "e", "y", "n", "o", "t", "e">>, "keynote" >>, << <<"a", "p",
    "p", "l", "i", "c", "a", "t", "i", "o", "n", "/", "v", "n", "d", ".",
    "a", "p", "p", "l", "e", ".", "m", "p", "e", "g", "u", "r", "l">>, "m3u"
    >>, << <<"a", "p", "p", "l", "i", "c", "a", "t", "i", "o", "n", "/",
    "v", "n", "d", ".", "a", "p", "p", "l", "e", ".", "n", "u", "m", "b",
    "e", "r", "s">>, "numbers" >>, << <<"a", "p", "p", "l", "i", "c", "a",
    "t", "i", "o", "n", "/", "v", "n", "d", ".", "a", "p", "p", "l", "e",
    ".", "p", "a", "g", "e", "s">>, "pages" >>, << <<"a", "p", "p", "l",
    "i", "c", "a", "t", "i", "o", "n", "/", "v", "n", "d", ".", "a", "r",
    "i", "s", "t", "a", "n", "e", "t", "w", "o", "r", "k", "s", ".", "s",
    "w", "i">>, "swi" >>, << <<"a", "p", "p", "l", "i", "c", "a", "t", "i",
    "o", "n", "/", "v", "n", "d", ".", "a", "r", "t", "i", "s", "a", "n",
    "+", "j", "s", "o", "n">>, "artisan" >>, << <<"a", "p", "p", "l", "i",
    "c", "a", "t", "i", "o", "n", "/", "v", "n", "d", ".", "a", "s", "t",
    "r", "a", "e", "a", "-", "s", "o", "f", "t", "w", "a", "r", "e", ".",
    "i", "o", "t", "a">>, "iota" >>, << <<"a", "p", "p", "l", "i", "c", "a",
    "t", "i", "o", "n", "/", "v", "n", "d", ".", "a", "u", "d", "i", "o",
    "g", "r", "a", "p", "h">>, "aep" >>, << <<"a", "p", "p", "l", "i", "c",
    "a", "t", "i", "o", "n", "/", "v", "n", "d", ".", "a", "u", "t", "o",
    "p", "a", "c", "k", "a", "g", "e">>, "package" >>, << <<"a", "p", "p",
    "l", "i", "c", "a", "t", "i", "o", "n", "/", "v", "n", "d", ".", "b",
    "a", "l", "s", "a", "m", "i", "q", ".", "b", "m", "m", "l", "+", "x",
    "m", "l">>, "bmml" >>, << <<"a", "p", "p", "l", "i", "c", "a", "t", "i",
    "o", "n", "/", "v", "n", "d", ".", "b", "a", "l", "s", "a", "m", "i",
    "q", ".", "b", "m", "p", "r">>, "bmpr" >>, << <<"a", "p", "p", "l", "i",
    "c", "a", "t", "i", "o", "n", "/", "v", "n", "d", ".", "b", "a", "n",
    "a", "n", "a", "-", "a", "c", "c", "o", "u", "n", "t", "i", "n", "g">>,
    "ac2" >>, << <<"a", "p", "p", "l", "i", "c", "a", "t", "i", "o", "n",
    "/", "v", "n", "d", ".", "b", "e", "l", "i", "g", "h", "t", "s", "o",
    "f", "t", ".", "l", "h", "z", "d", "+", "z", "i", "p">>, "lhzd" >>, <<
    <<"a", "p", "p", "l", "i", "c", "a", "t", "i", "o", "n", "/", "v", "n",
    "d", ".", "b", "e", "l", "i", "g", "h", "t", "s", "o", "f", "t", ".",
    "l", "h", "z", "l", "+", "z", "i", "p">>, "lhzl" >>, << <<"a", "p", "p",
    "l", "i", "c", "a", "t", "i", "o", "n", "/", "v", "n", "d", ".", "b",
    "l", "u", "e", "i", "c", "e", ".", "m", "u", "l", "t", "i", "p", "a",
    "s", "s">>, "mpm" >>, << <<"a", "p", "p", "l", "i", "c", "a", "t", "i",
    "o", "n", "/", "v", "n", "d", ".", "b", "l", "u", "e", "t", "o", "o",
    "t", "h", ".", "e", "p", ".", "o", "o", "b">>, "ep" >>, << <<"a", "p",
    "p", "l", "i", "c", "a", "t", "i", "o", "n", "/", "v", "n", "d", ".",
    "b", "l", "u", "e", "t", "o", "o", "t", "h", ".", "l", "e", ".", "o",
    "o", "b">>, "le" >>, << <<"a", "p", "p", "l", "i", "c", "a", "t", "i",
    "o", "n", "/", "v", "n", "d", ".", "b", "m", "i">>, "bmi" >>, << <<"a",
    "p", "p", "l", "i", "c", "a", "t", "i", "o", "n", "/", "v", "n", "d",
    ".", "b", "u", "s", "i", "n", "e", "s", "s", "o", "b", "j", "e", "c",
    "t", "s">>, "rep" >>, << <<"a", "p", "p", "l", "i", "c", "a", "t", "i",
    "o", "n", "/", "v", "n", "d", ".", "c", "e", "n", "d", "i", "o", ".",
    "t", "h", "i", "n", "l", "i", "n", "c", ".", "c", "l", "i", "e", "n",
    "t", "c", "o", "n", "f">>, "tlclient" >>, << <<"a", "p", "p", "l", "i",
    "c", "a", "t", "i", "o", "n", "/", "v", "n", "d", ".", "c", "h", "e",
    "m", "d", "r", "a", "w", "+", "x", "m", "l">>, "cdxml" >>, << <<"a",
    "p", "p", "l", "i", "c", "a", "t", "i", "o", "n", "/", "v", "n", "d",
    ".", "c", "h", "e", "s", "s", "-", "p", "g", "n">>, "pgn" >>, << <<"a",
    "p", "p", "l", "i", "c", "a", "t", "i", "o", "n", "/", "v", "n", "d",
    ".", "c", "h", "i", "p", "n", "u", "t", "s", ".", "k", "a", "r", "a",
    "o", "k", "e", "-", "m", "m", "d">>, "mmd" >>, << <<"a", "p", "p", "l",
    "i", "c", "a", "t", "i", "o", "n", "/", "v", "n", "d", ".", "c", "i",
    "n", "d", "e", "r", "e", "l", "l", "a">>, "cdy" >>, << <<"a", "p", "p",
    "l", "i", "c", "a", "t", "i", "o", "n", "/", "v", "n", "d", ".", "c",
    "i", "t", "a", "t", "i", "o", "n", "s", "t", "y", "l", "e", "s", ".",
    "s", "t", "y", "l", "e", "+", "x", "m", "l">>, "csl" >>, << <<"a", "p",
    "p", "l", "i", "c", "a", "t", "i", "o", "n", "/", "v", "n", "d", ".",
    "c", "l", "a", "y", "m", "o", "r", "e">>, "cla" >>, << <<"a", "p", "p",
    "l", "i", "c", "a", "t", "i", "o", "n", "/", "v", "n", "d", ".", "c",
    "l", "o", "a", "n", "t", "o", ".", "r", "p", "9">>, "rp9" >>, << <<"a",
    "p", "p", "l", "i", "c", "a", "t", "i", "o", "n", "/", "v", "n", "d",
    ".", "c", "l", "o", "n", "k", ".", "c", "4", "g", "r", "o", "u", "p">>,
    "c4g" >>, << <<"a", "p", "p", "l", "i", "c", "a", "t", "i", "o", "n",
    "/", "v", "n", "d", ".", "c", "l", "u", "e", "t", "r", "u", "s", "t",
    ".", "c", "a", "r", "t", "o", "m", "o", "b", "i", "l", "e", "-", "c",
    "o", "n", "f", "i", "g">>, "c11amc" >>, << <<"a", "p", "p", "l", "i",
    "c", "a", "t", "i", "o", "n", "/", "v", "n", "d", ".", "c", "l", "u",
    "e", "t", "r", "u", "s", "t", ".", "c", "a", "r", "t", "o", "m", "o",
    "b", "i", "l", "e", "-", "c", "o", "n", "f", "i", "g", "-", "p", "k",
    "g">>, "c11amz" >>, << <<"a", "p", "p", "l", "i", "c", "a", "t", "i",
    "o", "n", "/", "v", "n", "d", ".", "c", "o", "f", "f", "e", "e", "s",
    "c", "r", "i", "p", "t">>, "coffee" >>, << <<"a", "p", "p", "l", "i",
    "c", "a", "t", "i", "o", "n", "/", "v", "n", "d", ".", "c", "o", "l",
    "l", "a", "b", "i", "o", ".", "x", "o", "d", "o", "c", "u", "m", "e",
    "n", "t", "s", ".", "d", "o", "c", "u", "m", "e", "n", "t">>, "xodt" >>,
    << <<"a", "p", "p", "l", "i", "c", "a", "t", "i", "o", "n", "/", "v",
    "n", "d", ".", "c", "o", "l", "l", "a", "b", "i", "o", ".", "x", "o",
    "d", "o", "c", "u", "m", "e", "n", "t", "s", ".", "d", "o", "c", "u",
    "m", "e", "n", "t", "-", "t", "e", "m", "p", "l", "a", "t", "e">>,
    "xott" >>, << <<"a", "p", "p", "l", "i", "c", "a", "t", "i", "o", "n",
    "/", "v", "n", "d", ".", "c", "o", "l", "l", "a", "b", "i", "o", ".",
    "x", "o", "d", "o", "c", "u", "m", "e", "n", "t", "s", ".", "p", "r",
    "e", "s", "e", "n", "t", "a", "t", "i", "o", "n">>, "xodp" >>, << <<"a",
    "p", "p", "l", "i", "c", "a", "t", "i", "o", "n", "/", "v", "n", "d",
    ".", "c", "o", "l", "l", "a", "b", "i", "o", ".", "x", "o", "d", "o",
    "c", "u", "m", "e", "n", "t", "s", ".", "p", "r", "e", "s", "e", "n",
    "t", "a", "t", "i", "o", "n", "-", "t", "e", "m", "p", "l", "a", "t",
    "e">>, "xotp" >>, << <<"a", "p", "p", "l", "i", "c", "a", "t", "i", "o",
    "n", "/", "v", "n", "d", ".", "c", "o", "l", "l", "a", "b", "i", "o",
    ".", "x", "o", "d", "o", "c", "u", "m", "e", "n", "t", "s", ".", "s",
    "p", "r", "e", "a", "d", "s", "h", "e", "e", "t">>, "xods" >>, << <<"a",
    "p", "p", "l", "i", "c", "a", "t", "i", "o", "n", "/", "v", "n", "d",
    ".", "c", "o", "l", "l", "a", "b", "i", "o", ".", "x", "o", "d", "o",
    "c", "u", "m", "e", "n", "t", "s", ".", "s", "p", "r", "e", "a", "d",
    "s", "h", "e", "e", "t", "-", "t", "e", "m", "p", "l", "a", "t", "e">>,
    "xots" >>, << <<"a", "p", "p", "l", "i", "c", "a", "t", "i", "o", "n",
    "/", "v", "n", "d", ".", "c", "o", "m", "i", "c", "b", "o", "o", "k",
    "+", "z", "i", "p">>, "cbz" >>, << <<"a", "p", "p", "l", "i", "c", "a",
    "t", "i", "o", "n", "/", "v", "n", "d", ".", "c", "o", "m", "i", "c",
    "b", "o", "o", "k", "-", "r", "a", "r">>, "cbr" >>, << <<"a", "p", "p",
    "l", "i", "c", "a", "t", "i", "o", "n", "/", "v", "n", "d", ".", "c",
    "o", "m", "m", "e", "r", "c", "e", "-", "b", "a", "t", "t", "e", "l",
    "l", "e">>, "icf" >>, << <<"a", "p", "p", "l", "i", "c", "a", "t", "i",
    "o", "n", "/", "v", "n", "d", ".", "c", "o", "m", "m", "o", "n", "s",
    "p", "a", "c", "e">>, "csp" >>, << <<"a", "p", "p", "l", "i", "c", "a",
    "t", "i", "o", "n", "/", "v", "n", "d", ".", "c", "o", "n", "t", "a",
    "c", "t", ".", "c", "m", "s", "g">>, "cdbcmsg" >>, << <<"a", "p", "p",
    "l", "i", "c", "a", "t", "i", "o", "n", "/", "v", "n", "d", ".", "c",
    "o", "r", "e", "o", "s", ".", "i", "g", "n", "i", "t", "i", "o", "n",
    "+", "j", "s", "o", "n">>, "ign" >>, << <<"a", "p", "p", "l", "i", "c",
    "a", "t", "i", "o", "n", "/", "v", "n", "d", ".", "c", "o", "s", "m",
    "o", "c", "a", "l", "l", "e", "r">>, "cmc" >>, << <<"a", "p", "p", "l",
    "i", "c", "a", "t", "i", "o", "n", "/", "v", "n", "d", ".", "c", "r",
    "i", "c", "k", ".", "c", "l", "i", "c", "k", "e", "r">>, "clkx" >>, <<
    <<"a", "p", "p", "l", "i", "c", "a", "t", "i", "o", "n", "/", "v", "n",
    "d", ".", "c", "r", "i", "c", "k", ".", "c", "l", "i", "c", "k", "e",
    "r", ".", "k", "e", "y", "b", "o", "a", "r", "d">>, "clkk" >>, << <<"a",
    "p", "p", "l", "i", "c", "a", "t", "i", "o", "n", "/", "v", "n", "d",
    ".", "c", "r", "i", "c", "k", ".", "c", "l", "i", "c", "k", "e", "r",
    ".", "p", "a", "l", "e", "t", "t", "e">>, "clkp" >>, << <<"a", "p", "p",
    "l", "i", "c", "a", "t", "i", "o", "n", "/", "v", "n", "d", ".", "c",
    "r", "i", "c", "k", ".", "c", "l", "i", "c", "k", "e", "r", ".", "t",
    "e", "m", "p", "l", "a", "t", "e">>, "clkt" >>, << <<"a", "p", "p", "l",
    "i", "c", "a", "t", "i", "o", "n", "/", "v", "n", "d", ".", "c", "r",
    "i", "c", "k", ".", "c", "l", "i", "c", "k", "e", "r", ".", "w", "o",
    "r", "d", "b", "a", "n", "k">>, "clkw" >>, << <<"a", "p", "p", "l", "i",
    "c", "a", "t", "i", "o", "n", "/", "v", "n", "d", ".", "c", "r", "i",
    "t", "i", "c", "a", "l", "t", "o", "o", "l", "s", ".", "w", "b", "s",
    "+", "x", "m", "l">>, "wbs" >>, << <<"a", "p", "p", "l", "i", "c", "a",
    "t", "i", "o", "n", "/", "v", "n", "d", ".", "c", "r", "y", "p", "t",
    "o", "-", "s", "h", "a", "d", "e", "-", "f", "i", "l", "e">>, "ssvc" >>,
    << <<"a", "p", "p", "l", "i", "c", "a", "t", "i", "o", "n", "/", "v",
    "n", "d", ".", "c", "r", "y", "p", "t", "o", "m", "a", "t", "o", "r",
    ".", "e", "n", "c", "r", "y", "p", "t", "e", "d">>, "c9r" >>, << <<"a",
    "p", "p", "l", "i", "c", "a", "t", "i", "o", "n", "/", "v", "n", "d",
    ".", "c", "r", "y", "p", "t", "o", "m", "a", "t", "o", "r", ".", "v",
    "a", "u", "l", "t">>, "cryptomator" >>, << <<"a", "p", "p", "l", "i",
    "c", "a", "t", "i", "o", "n", "/", "v", "n", "d", ".", "c", "t", "c",
    "-", "p", "o", "s", "m", "l">>, "pml" >>, << <<"a", "p", "p", "l", "i",
    "c", "a", "t", "i", "o", "n", "/", "v", "n", "d", ".", "c", "u", "p",
    "s", "-", "p", "p", "d">>, "ppd" >>, << <<"a", "p", "p", "l", "i", "c",
    "a", "t", "i", "o", "n", "/", "v", "n", "d", ".", "d", "a", "r", "t">>,
    "dart" >>, << <<"a", "p", "p", "l", "i", "c", "a", "t", "i", "o", "n",
    "/", "v", "n", "d", ".", "d", "a", "t", "a", "-", "v", "i", "s", "i",
    "o", "n", ".", "r", "d", "z">>, "rdz" >>, << <<"a", "p", "p", "l", "i",
    "c", "a", "t", "i", "o", "n", "/", "v", "n", "d", ".", "d", "a", "t",
    "a", "l", "o", "g">>, "dl" >>, << <<"a", "p", "p", "l", "i", "c", "a",
    "t", "i", "o", "n", "/", "v", "n", "d", ".", "d", "b", "f">>, "dbf" >>,
    << <<"a", "p", "p", "l", "i", "c", "a", "t", "i", "o", "n", "/", "v",
    "n", "d", ".", "d", "e", "b", "i", "a", "n", ".", "b", "i", "n", "a",
    "r", "y", "-", "p", "a", "c", "k", "a", "g", "e">>, "deb" >>, << <<"a",
    "p", "p", "l", "i", "c", "a", "t", "i", "o", "n", "/", "v", "n", "d",
    ".", "d", "e", "c", "e", ".", "d", "a", "t", "a">>, "uvf" >>, << <<"a",
    "p", "p", "l", "i", "c", "a", "t", "i", "o", "n", "/", "v", "n", "d",
    ".", "d", "e", "c", "e", ".", "t", "t", "m", "l", "+", "x", "m", "l">>,
    "uvt" >>, << <<"a", "p", "p", "l", "i", "c", "a", "t", "i", "o", "n",
    "/", "v", "n", "d", ".", "d", "e", "c", "e", ".", "u", "n", "s", "p",
    "e", "c", "i", "f", "i", "e", "d">>, "uvx" >>, << <<"a", "p", "p", "l",
    "i", "c", "a", "t", "i", "o", "n", "/", "v", "n", "d", ".", "d", "e",
    "c", "e", ".", "z", "i", "p">>, "uvz" >>, << <<"a", "p", "p", "l", "i",
    "c", "a", "t", "i", "o", "n", "/", "v", "n", "d", ".", "d", "e", "n",
    "o", "v", "o", ".", "f", "c", "s", "e", "l", "a", "y", "o", "u", "t",
    "-", "l", "i", "n", "k">>, "fe_launch" >>, << <<"a", "p", "p", "l", "i",
    "c", "a", "t", "i", "o", "n", "/", "v", "n", "d", ".", "d", "e", "s",
    "m", "u", "m", "e", ".", "m", "o", "v", "i", "e">>, "dsm" >>, << <<"a",
    "p", "p", "l", "i", "c", "a", "t", "i", "o", "n", "/", "v", "n", "d",
    ".", "d", "n", "a">>, "dna" >>, << <<"a", "p", "p", "l", "i", "c", "a",
    "t", "i", "o", "n", "/", "v", "n", "d", ".", "d", "o", "c", "u", "m",
    "e", "n", "t", "+", "j", "s", "o", "n">>, "docjson" >>, << <<"a", "p",
    "p", "l", "i", "c", "a", "t", "i", "o", "n", "/", "v", "n", "d", ".",
    "d", "o", "r", "e", "m", "i", "r", ".", "s", "c", "o", "r", "e", "c",
    "l", "o", "u", "d", "-", "b", "i", "n", "a", "r", "y", "-", "d", "o",
    "c", "u", "m", "e", "n", "t">>, "scld" >>, << <<"a", "p", "p", "l", "i",
    "c", "a", "t", "i", "o", "n", "/", "v", "n", "d", ".", "d", "p", "g",
    "r", "a", "p", "h">>, "dpg" >>, << <<"a", "p", "p", "l", "i", "c", "a",
    "t", "i", "o", "n", "/", "v", "n", "d", ".", "d", "r", "e", "a", "m",
    "f", "a", "c", "t", "o", "r", "y">>, "dfac" >>, << <<"a", "p", "p", "l",
    "i", "c", "a", "t", "i", "o", "n", "/", "v", "n", "d", ".", "d", "t",
    "g", ".", "l", "o", "c", "a", "l", ".", "f", "l", "a", "s", "h">>, "fla"
    >>, << <<"a", "p", "p", "l", "i", "c", "a", "t", "i", "o", "n", "/",
    "v", "n", "d", ".", "d", "v", "b", ".", "a", "i", "t">>, "ait" >>, <<
    <<"a", "p", "p", "l", "i", "c", "a", "t", "i", "o", "n", "/", "v", "n",
    "d", ".", "d", "v", "b", ".", "s", "e", "r", "v", "i", "c", "e">>, "svc"
    >>, << <<"a", "p", "p", "l", "i", "c", "a", "t", "i", "o", "n", "/",
    "v", "n", "d", ".", "d", "y", "n", "a", "g", "e", "o">>, "geo" >>, <<
    <<"a", "p", "p", "l", "i", "c", "a", "t", "i", "o", "n", "/", "v", "n",
    "d", ".", "d", "z", "r">>, "dzr" >>, << <<"a", "p", "p", "l", "i", "c",
    "a", "t", "i", "o", "n", "/", "v", "n", "d", ".", "e", "c", "o", "w",
    "i", "n", ".", "c", "h", "a", "r", "t">>, "mag" >>, << <<"a", "p", "p",
    "l", "i", "c", "a", "t", "i", "o", "n", "/", "v", "n", "d", ".", "e",
    "l", "n", "+", "z", "i", "p">>, "ELN" >>, << <<"a", "p", "p", "l", "i",
    "c", "a", "t", "i", "o", "n", "/", "v", "n", "d", ".", "e", "n", "l",
    "i", "v", "e", "n">>, "nml" >>, << <<"a", "p", "p", "l", "i", "c", "a",
    "t", "i", "o", "n", "/", "v", "n", "d", ".", "e", "p", "s", "o", "n",
    ".", "e", "s", "f">>, "esf" >>, << <<"a", "p", "p", "l", "i", "c", "a",
    "t", "i", "o", "n", "/", "v", "n", "d", ".", "e", "p", "s", "o", "n",
    ".", "m", "s", "f">>, "msf" >>, << <<"a", "p", "p", "l", "i", "c", "a",
    "t", "i", "o", "n", "/", "v", "n", "d", ".", "e", "p", "s", "o", "n",
    ".", "q", "u", "i", "c", "k", "a", "n", "i", "m", "e">>, "qam" >>, <<
    <<"a", "p", "p", "l", "i", "c", "a", "t", "i", "o", "n", "/", "v", "n",
    "d", ".", "e", "p", "s", "o", "n", ".", "s", "a", "l", "t">>, "slt" >>,
    << <<"a", "p", "p", "l", "i", "c", "a", "t", "i", "o", "n", "/", "v",
    "n", "d", ".", "e", "p", "s", "o", "n", ".", "s", "s", "f">>, "ssf" >>,
    << <<"a", "p", "p", "l", "i", "c", "a", "t", "i", "o", "n", "/", "v",
    "n", "d", ".", "e", "r", "i", "c", "s", "s", "o", "n", ".", "q", "u",
    "i", "c", "k", "c", "a", "l", "l">>, "qcall" >>, << <<"a", "p", "p",
    "l", "i", "c", "a", "t", "i", "o", "n", "/", "v", "n", "d", ".", "e",
    "s", "p", "a", "s", "s", "-", "e", "s", "p", "a", "s", "s", "+", "z",
    "i", "p">>, "espass" >>, << <<"a", "p", "p", "l", "i", "c", "a", "t",
    "i", "o", "n", "/", "v", "n", "d", ".", "e", "s", "z", "i", "g", "n",
    "o", "3", "+", "x", "m", "l">>, "es3" >>, << <<"a", "p", "p", "l", "i",
    "c", "a", "t", "i", "o", "n", "/", "v", "n", "d", ".", "e", "t", "s",
    "i", ".", "a", "s", "i", "c", "-", "e", "+", "z", "i", "p">>, "asice"
    >>, << <<"a", "p", "p", "l", "i", "c", "a", "t", "i", "o", "n", "/",
    "v", "n", "d", ".", "e", "t", "s", "i", ".", "a", "s", "i", "c", "-",
    "s", "+", "z", "i", "p">>, "asics" >>, << <<"a", "p", "p", "l", "i",
    "c", "a", "t", "i", "o", "n", "/", "v", "n", "d", ".", "e", "t", "s",
    "i", ".", "t", "i", "m", "e", "s", "t", "a", "m", "p", "-", "t", "o",
    "k", "e", "n">>, "tst" >>, << <<"a", "p", "p", "l", "i", "c", "a", "t",
    "i", "o", "n", "/", "v", "n", "d", ".", "e", "u", ".", "k", "a", "s",
    "p", "a", "r", "i", "a", "n", ".", "c", "a", "r", "+", "j", "s", "o",
    "n">>, "carjson" >>, << <<"a", "p", "p", "l", "i", "c", "a", "t", "i",
    "o", "n", "/", "v", "n", "d", ".", "e", "v", "o", "l", "v", ".", "e",
    "c", "i", "g", ".", "p", "r", "o", "f", "i", "l", "e">>, "ecigprofile"
    >>, << <<"a", "p", "p", "l", "i", "c", "a", "t", "i", "o", "n", "/",
    "v", "n", "d", ".", "e", "v", "o", "l", "v", ".", "e", "c", "i", "g",
    ".", "s", "e", "t", "t", "i", "n", "g", "s">>, "ecig" >>, << <<"a", "p",
    "p", "l", "i", "c", "a", "t", "i", "o", "n", "/", "v", "n", "d", ".",
    "e", "v", "o", "l", "v", ".", "e", "c", "i", "g", ".", "t", "h", "e",
    "m", "e">>, "ecigtheme" >>, << <<"a", "p", "p", "l", "i", "c", "a", "t",
    "i", "o", "n", "/", "v", "n", "d", ".", "e", "x", "s", "t", "r", "e",
    "a", "m", "-", "e", "m", "p", "o", "w", "e", "r", "+", "z", "i", "p">>,
    "mpw" >>, << <<"a", "p", "p", "l", "i", "c", "a", "t", "i", "o", "n",
    "/", "v", "n", "d", ".", "e", "x", "s", "t", "r", "e", "a", "m", "-",
    "p", "a", "c", "k", "a", "g", "e">>, "pub" >>, << <<"a", "p", "p", "l",
    "i", "c", "a", "t", "i", "o", "n", "/", "v", "n", "d", ".", "e", "z",
    "p", "i", "x", "-", "a", "l", "b", "u", "m">>, "ez2" >>, << <<"a", "p",
    "p", "l", "i", "c", "a", "t", "i", "o", "n", "/", "v", "n", "d", ".",
    "e", "z", "p", "i", "x", "-", "p", "a", "c", "k", "a", "g", "e">>, "ez3"
    >>, << <<"a", "p", "p", "l", "i", "c", "a", "t", "i", "o", "n", "/",
    "v", "n", "d", ".", "f", "a", "m", "i", "l", "y", "s", "e", "a", "r",
    "c", "h", ".", "g", "e", "d", "c", "o", "m", "+", "z", "i", "p">>, "gdz"
    >>, << <<"a", "p", "p", "l", "i", "c", "a", "t", "i", "o", "n", "/",
    "v", "n", "d", ".", "f", "a", "s", "t", "c", "o", "p", "y", "-", "d",
    "i", "s", "k", "-", "i", "m", "a", "g", "e">>, "dim" >>, << <<"a", "p",
    "p", "l", "i", "c", "a", "t", "i", "o", "n", "/", "v", "n", "d", ".",
    "f", "d", "s", "n", ".", "m", "s", "e", "e", "d">>, "msd" >>, << <<"a",
    "p", "p", "l", "i", "c", "a", "t", "i", "o", "n", "/", "v", "n", "d",
    ".", "f", "d", "s", "n", ".", "s", "e", "e", "d">>, "seed" >>, << <<"a",
    "p", "p", "l", "i", "c", "a", "t", "i", "o", "n", "/", "v", "n", "d",
    ".", "f", "i", "c", "l", "a", "b", ".", "f", "l", "b", "+", "z", "i",
    "p">>, "flb" >>, << <<"a", "p", "p", "l", "i", "c", "a", "t", "i", "o",
    "n", "/", "v", "n", "d", ".", "f", "i", "l", "m", "i", "t", ".", "z",
    "f", "c">>, "zfc" >>, << <<"a", "p", "p", "l", "i", "c", "a", "t", "i",
    "o", "n", "/", "v", "n", "d", ".", "f", "l", "u", "x", "t", "i", "m",
    "e", ".", "c", "l", "i", "p">>, "ftc" >>, << <<"a", "p", "p", "l", "i",
    "c", "a", "t", "i", "o", "n", "/", "v", "n", "d", ".", "f", "o", "n",
    "t", "-", "f", "o", "n", "t", "f", "o", "r", "g", "e", "-", "s", "f",
    "d">>, "sfd" >>, << <<"a", "p", "p", "l", "i", "c", "a", "t", "i", "o",
    "n", "/", "v", "n", "d", ".", "f", "r", "a", "m", "e", "m", "a", "k",
    "e", "r">>, "fm" >>, << <<"a", "p", "p", "l", "i", "c", "a", "t", "i",
    "o", "n", "/", "v", "n", "d", ".", "f", "s", "c", ".", "w", "e", "b",
    "l", "a", "u", "n", "c", "h">>, "fsc" >>, << <<"a", "p", "p", "l", "i",
    "c", "a", "t", "i", "o", "n", "/", "v", "n", "d", ".", "f", "u", "j",
    "i", "t", "s", "u", ".", "o", "a", "s", "y", "s">>, "oas" >>, << <<"a",
    "p", "p", "l", "i", "c", "a", "t", "i", "o", "n", "/", "v", "n", "d",
    ".", "f", "u", "j", "i", "t", "s", "u", ".", "o", "a", "s", "y", "s",
    "2">>, "oa2" >>, << <<"a", "p", "p", "l", "i", "c", "a", "t", "i", "o",
    "n", "/", "v", "n", "d", ".", "f", "u", "j", "i", "t", "s", "u", ".",
    "o", "a", "s", "y", "s", "3">>, "oa3" >>, << <<"a", "p", "p", "l", "i",
    "c", "a", "t", "i", "o", "n", "/", "v", "n", "d", ".", "f", "u", "j",
    "i", "t", "s", "u", ".", "o", "a", "s", "y", "s", "g", "p">>, "fg5" >>,
    << <<"a", "p", "p", "l", "i", "c", "a", "t", "i", "o", "n", "/", "v",
    "n", "d", ".", "f", "u", "j", "i", "t", "s", "u", ".", "o", "a", "s",
    "y", "s", "p", "r", "s">>, "bh2" >>, << <<"a", "p", "p", "l", "i", "c",
    "a", "t", "i", "o", "n", "/", "v", "n", "d", ".", "f", "u", "j", "i",
    "x", "e", "r", "o", "x", ".", "d", "d", "d">>, "ddd" >>, << <<"a", "p",
    "p", "l", "i", "c", "a", "t", "i", "o", "n", "/", "v", "n", "d", ".",
    "f", "u", "j", "i", "x", "e", "r", "o", "x", ".", "d", "o", "c", "u",
    "w", "o", "r", "k", "s">>, "xdw" >>, << <<"a", "p", "p", "l", "i", "c",
    "a", "t", "i", "o", "n", "/", "v", "n", "d", ".", "f", "u", "j", "i",
    "x", "e", "r", "o", "x", ".", "d", "o", "c", "u", "w", "o", "r", "k",
    "s", ".", "b", "i", "n", "d", "e", "r">>, "xbd" >>, << <<"a", "p", "p",
    "l", "i", "c", "a", "t", "i", "o", "n", "/", "v", "n", "d", ".", "f",
    "u", "j", "i", "x", "e", "r", "o", "x", ".", "d", "o", "c", "u", "w",
    "o", "r", "k", "s", ".", "c", "o", "n", "t", "a", "i", "n", "e", "r">>,
    "xct" >>, << <<"a", "p", "p", "l", "i", "c", "a", "t", "i", "o", "n",
    "/", "v", "n", "d", ".", "f", "u", "z", "z", "y", "s", "h", "e", "e",
    "t">>, "fzs" >>, << <<"a", "p", "p", "l", "i", "c", "a", "t", "i", "o",
    "n", "/", "v", "n", "d", ".", "g", "e", "n", "o", "m", "a", "t", "i",
    "x", ".", "t", "u", "x", "e", "d", "o">>, "txd" >>, << <<"a", "p", "p",
    "l", "i", "c", "a", "t", "i", "o", "n", "/", "v", "n", "d", ".", "g",
    "e", "n", "o", "z", "i", "p">>, "genozip" >>, << <<"a", "p", "p", "l",
    "i", "c", "a", "t", "i", "o", "n", "/", "v", "n", "d", ".", "g", "e",
    "n", "t", "i", "c", "s", ".", "g", "r", "d", "+", "j", "s", "o", "n">>,
    "grd" >>, << <<"a", "p", "p", "l", "i", "c", "a", "t", "i", "o", "n",
    "/", "v", "n", "d", ".", "g", "e", "n", "t", "o", "o", ".", "e", "b",
    "u", "i", "l", "d">>, "ebuild" >>, << <<"a", "p", "p", "l", "i", "c",
    "a", "t", "i", "o", "n", "/", "v", "n", "d", ".", "g", "e", "n", "t",
    "o", "o", ".", "e", "c", "l", "a", "s", "s">>, "eclass" >>, << <<"a",
    "p", "p", "l", "i", "c", "a", "t", "i", "o", "n", "/", "v", "n", "d",
    ".", "g", "e", "n", "t", "o", "o", ".", "g", "p", "k", "g">>, "gpkg.tar"
    >>, << <<"a", "p", "p", "l", "i", "c", "a", "t", "i", "o", "n", "/",
    "v", "n", "d", ".", "g", "e", "n", "t", "o", "o", ".", "x", "p", "a",
    "k">>, "xpak" >>, << <<"a", "p", "p", "l", "i", "c", "a", "t", "i", "o",
    "n", "/", "v", "n", "d", ".", "g", "e", "o", "g", "e", "b", "r", "a",
    ".", "f", "i", "l", "e">>, "ggb" >>, << <<"a", "p", "p", "l", "i", "c",
    "a", "t", "i", "o", "n", "/", "v", "n", "d", ".", "g", "e", "o", "g",
    "e", "b", "r", "a", ".", "s", "l", "i", "d", "e", "s">>, "ggs" >>, <<
    <<"a", "p", "p", "l", "i", "c", "a", "t", "i", "o", "n", "/", "v", "n",
    "d", ".", "g", "e", "o", "g", "e", "b", "r", "a", ".", "t", "o", "o",
    "l">>, "ggt" >>, << <<"a", "p", "p", "l", "i", "c", "a", "t", "i", "o",
    "n", "/", "v", "n", "d", ".", "g", "e", "o", "m", "e", "t", "r", "y",
    "-", "e", "x", "p", "l", "o", "r", "e", "r">>, "gex" >>, << <<"a", "p",
    "p", "l", "i", "c", "a", "t", "i", "o", "n", "/", "v", "n", "d", ".",
    "g", "e", "o", "n", "e", "x", "t">>, "gxt" >>, << <<"a", "p", "p", "l",
    "i", "c", "a", "t", "i", "o", "n", "/", "v", "n", "d", ".", "g", "e",
    "o", "p", "l", "a", "n">>, "g2w" >>, << <<"a", "p", "p", "l", "i", "c",
    "a", "t", "i", "o", "n", "/", "v", "n", "d", ".", "g", "e", "o", "s",
    "p", "a", "c", "e">>, "g3w" >>, << <<"a", "p", "p", "l", "i", "c", "a",
    "t", "i", "o", "n", "/", "v", "n", "d", ".", "g", "o", "o", "g", "l",
    "e", "-", "e", "a", "r", "t", "h", ".", "k", "m", "l", "+", "x", "m",
    "l">>, "kml" >>, << <<"a", "p", "p", "l", "i", "c", "a", "t", "i", "o",
    "n", "/", "v", "n", "d", ".", "g", "o", "o", "g", "l", "e", "-", "e",
    "a", "r", "t", "h", ".", "k", "m", "z">>, "kmz" >>, << <<"a", "p", "p",
    "l", "i", "c", "a", "t", "i", "o", "n", "/", "v", "n", "d", ".", "g",
    "r", "a", "f", "e", "q">>, "gqf" >>, << <<"a", "p", "p", "l", "i", "c",
    "a", "t", "i", "o", "n", "/", "v", "n", "d", ".", "g", "r", "o", "o",
    "v", "e", "-", "a", "c", "c", "o", "u", "n", "t">>, "gac" >>, << <<"a",
    "p", "p", "l", "i", "c", "a", "t", "i", "o", "n", "/", "v", "n", "d",
    ".", "g", "r", "o", "o", "v", "e", "-", "h", "e", "l", "p">>, "ghf" >>,
    << <<"a", "p", "p", "l", "i", "c", "a", "t", "i", "o", "n", "/", "v",
    "n", "d", ".", "g", "r", "o", "o", "v", "e", "-", "i", "d", "e", "n",
    "t", "i", "t", "y", "-", "m", "e", "s", "s", "a", "g", "e">>, "gim" >>,
    << <<"a", "p", "p", "l", "i", "c", "a", "t", "i", "o", "n", "/", "v",
    "n", "d", ".", "g", "r", "o", "o", "v", "e", "-", "i", "n", "j", "e",
    "c", "t", "o", "r">>, "grv" >>, << <<"a", "p", "p", "l", "i", "c", "a",
    "t", "i", "o", "n", "/", "v", "n", "d", ".", "g", "r", "o", "o", "v",
    "e", "-", "t", "o", "o", "l", "-", "m", "e", "s", "s", "a", "g", "e">>,
    "gtm" >>, << <<"a", "p", "p", "l", "i", "c", "a", "t", "i", "o", "n",
    "/", "v", "n", "d", ".", "g", "r", "o", "o", "v", "e", "-", "t", "o",
    "o", "l", "-", "t", "e", "m", "p", "l", "a", "t", "e">>, "tpl" >>, <<
    <<"a", "p", "p", "l", "i", "c", "a", "t", "i", "o", "n", "/", "v", "n",
    "d", ".", "g", "r", "o", "o", "v", "e", "-", "v", "c", "a", "r", "d">>,
    "vcg" >>, << <<"a", "p", "p", "l", "i", "c", "a", "t", "i", "o", "n",
    "/", "v", "n", "d", ".", "h", "a", "l", "+", "x", "m", "l">>, "hal" >>,
    << <<"a", "p", "p", "l", "i", "c", "a", "t", "i", "o", "n", "/", "v",
    "n", "d", ".", "h", "b", "c", "i">>, "hbci" >>, << <<"a", "p", "p", "l",
    "i", "c", "a", "t", "i", "o", "n", "/", "v", "n", "d", ".", "h", "d",
    "t">>, "hdt" >>, << <<"a", "p", "p", "l", "i", "c", "a", "t", "i", "o",
    "n", "/", "v", "n", "d", ".", "h", "h", "e", ".", "l", "e", "s", "s",
    "o", "n", "-", "p", "l", "a", "y", "e", "r">>, "les" >>, << <<"a", "p",
    "p", "l", "i", "c", "a", "t", "i", "o", "n", "/", "v", "n", "d", ".",
    "h", "p", "-", "h", "p", "i", "d">>, "hpi" >>, << <<"a", "p", "p", "l",
    "i", "c", "a", "t", "i", "o", "n", "/", "v", "n", "d", ".", "h", "p",
    "-", "h", "p", "s">>, "hps" >>, << <<"a", "p", "p", "l", "i", "c", "a",
    "t", "i", "o", "n", "/", "v", "n", "d", ".", "h", "p", "-", "j", "l",
    "y", "t">>, "jlt" >>, << <<"a", "p", "p", "l", "i", "c", "a", "t", "i",
    "o", "n", "/", "v", "n", "d", ".", "h", "y", "d", "r", "o", "s", "t",
    "a", "t", "i", "x", ".", "s", "o", "f", "-", "d", "a", "t", "a">>,
    "sfd-hdstx" >>, << <<"a", "p", "p", "l", "i", "c", "a", "t", "i", "o",
    "n", "/", "v", "n", "d", ".", "i", "b", "m", ".", "e", "l", "e", "c",
    "t", "r", "o", "n", "i", "c", "-", "m", "e", "d", "i", "a">>, "emm" >>,
    << <<"a", "p", "p", "l", "i", "c", "a", "t", "i", "o", "n", "/", "v",
    "n", "d", ".", "i", "b", "m", ".", "r", "i", "g", "h", "t", "s", "-",
    "m", "a", "n", "a", "g", "e", "m", "e", "n", "t">>, "irm" >>, << <<"a",
    "p", "p", "l", "i", "c", "a", "t", "i", "o", "n", "/", "v", "n", "d",
    ".", "i", "b", "m", ".", "s", "e", "c", "u", "r", "e", "-", "c", "o",
    "n", "t", "a", "i", "n", "e", "r">>, "sc" >>, << <<"a", "p", "p", "l",
    "i", "c", "a", "t", "i", "o", "n", "/", "v", "n", "d", ".", "i", "c",
    "c", "p", "r", "o", "f", "i", "l", "e">>, "icc" >>, << <<"a", "p", "p",
    "l", "i", "c", "a", "t", "i", "o", "n", "/", "v", "n", "d", ".", "i",
    "e", "e", "e", ".", "1", "9", "0", "5">>, "1905.1" >>, << <<"a", "p",
    "p", "l", "i", "c", "a", "t", "i", "o", "n", "/", "v", "n", "d", ".",
    "i", "g", "l", "o", "a", "d", "e", "r">>, "igl" >>, << <<"a", "p", "p",
    "l", "i", "c", "a", "t", "i", "o", "n", "/", "v", "n", "d", ".", "i",
    "m", "a", "g", "e", "m", "e", "t", "e", "r", ".", "f", "o", "l", "d",
    "e", "r", "+", "z", "i", "p">>, "imf" >>, << <<"a", "p", "p", "l", "i",
    "c", "a", "t", "i", "o", "n", "/", "v", "n", "d", ".", "i", "m", "a",
    "g", "e", "m", "e", "t", "e", "r", ".", "i", "m", "a", "g", "e", "+",
    "z", "i", "p">>, "imi" >>, << <<"a", "p", "p", "l", "i", "c", "a", "t",
    "i", "o", "n", "/", "v", "n", "d", ".", "i", "m", "m", "e", "r", "v",
    "i", "s", "i", "o", "n", "-", "i", "v", "p">>, "ivp" >>, << <<"a", "p",
    "p", "l", "i", "c", "a", "t", "i", "o", "n", "/", "v", "n", "d", ".",
    "i", "m", "m", "e", "r", "v", "i", "s", "i", "o", "n", "-", "i", "v",
    "u">>, "ivu" >>, << <<"a", "p", "p", "l", "i", "c", "a", "t", "i", "o",
    "n", "/", "v", "n", "d", ".", "i", "m", "s", ".", "i", "m", "s", "c",
    "c", "v", "1", "p", "1">>, "imscc" >>, << <<"a", "p", "p", "l", "i",
    "c", "a", "t", "i", "o", "n", "/", "v", "n", "d", ".", "i", "n", "s",
    "o", "r", "s", ".", "i", "g", "m">>, "igm" >>, << <<"a", "p", "p", "l",
    "i", "c", "a", "t", "i", "o", "n", "/", "v", "n", "d", ".", "i", "n",
    "t", "e", "r", "c", "o", "n", ".", "f", "o", "r", "m", "n", "e", "t">>,
    "xpw" >>, << <<"a", "p", "p", "l", "i", "c", "a", "t", "i", "o", "n",
    "/", "v", "n", "d", ".", "i", "n", "t", "e", "r", "g", "e", "o">>, "i2g"
    >>, << <<"a", "p", "p", "l", "i", "c", "a", "t", "i", "o", "n", "/",
    "v", "n", "d", ".", "i", "n", "t", "u", ".", "q", "b", "o">>, "qbo" >>,
    << <<"a", "p", "p", "l", "i", "c", "a", "t", "i", "o", "n", "/", "v",
    "n", "d", ".", "i", "n", "t", "u", ".", "q", "f", "x">>, "qfx" >>, <<
    <<"a", "p", "p", "l", "i", "c", "a", "t", "i", "o", "n", "/", "v", "n",
    "d", ".", "i", "p", "l", "d", ".", "c", "a", "r">>, "car" >>, << <<"a",
    "p", "p", "l", "i", "c", "a", "t", "i", "o", "n", "/", "v", "n", "d",
    ".", "i", "p", "u", "n", "p", "l", "u", "g", "g", "e", "d", ".", "r",
    "c", "p", "r", "o", "f", "i", "l", "e">>, "rcprofile" >>, << <<"a", "p",
    "p", "l", "i", "c", "a", "t", "i", "o", "n", "/", "v", "n", "d", ".",
    "i", "r", "e", "p", "o", "s", "i", "t", "o", "r", "y", ".", "p", "a",
    "c", "k", "a", "g", "e", "+", "x", "m", "l">>, "irp" >>, << <<"a", "p",
    "p", "l", "i", "c", "a", "t", "i", "o", "n", "/", "v", "n", "d", ".",
    "i", "s", "-", "x", "p", "r">>, "xpr" >>, << <<"a", "p", "p", "l", "i",
    "c", "a", "t", "i", "o", "n", "/", "v", "n", "d", ".", "i", "s", "a",
    "c", ".", "f", "c", "s">>, "fcs" >>, << <<"a", "p", "p", "l", "i", "c",
    "a", "t", "i", "o", "n", "/", "v", "n", "d", ".", "j", "a", "m">>, "jam"
    >>, << <<"a", "p", "p", "l", "i", "c", "a", "t", "i", "o", "n", "/",
    "v", "n", "d", ".", "j", "c", "p", ".", "j", "a", "v", "a", "m", "e",
    ".", "m", "i", "d", "l", "e", "t", "-", "r", "m", "s">>, "rms" >>, <<
    <<"a", "p", "p", "l", "i", "c", "a", "t", "i", "o", "n", "/", "v", "n",
    "d", ".", "j", "i", "s", "p">>, "jisp" >>, << <<"a", "p", "p", "l", "i",
    "c", "a", "t", "i", "o", "n", "/", "v", "n", "d", ".", "j", "o", "o",
    "s", "t", ".", "j", "o", "d", "a", "-", "a", "r", "c", "h", "i", "v",
    "e">>, "joda" >>, << <<"a", "p", "p", "l", "i", "c", "a", "t", "i", "o",
    "n", "/", "v", "n", "d", ".", "k", "a", "h", "o", "o", "t", "z">>, "ktz"
    >>, << <<"a", "p", "p", "l", "i", "c", "a", "t", "i", "o", "n", "/",
    "v", "n", "d", ".", "k", "d", "e", ".", "k", "a", "r", "b", "o", "n">>,
    "karbon" >>, << <<"a", "p", "p", "l", "i", "c", "a", "t", "i", "o", "n",
    "/", "v", "n", "d", ".", "k", "d", "e", ".", "k", "c", "h", "a", "r",
    "t">>, "chrt" >>, << <<"a", "p", "p", "l", "i", "c", "a", "t", "i", "o",
    "n", "/", "v", "n", "d", ".", "k", "d", "e", ".", "k", "f", "o", "r",
    "m", "u", "l", "a">>, "kfo" >>, << <<"a", "p", "p", "l", "i", "c", "a",
    "t", "i", "o", "n", "/", "v", "n", "d", ".", "k", "d", "e", ".", "k",
    "i", "v", "i", "o">>, "flw" >>, << <<"a", "p", "p", "l", "i", "c", "a",
    "t", "i", "o", "n", "/", "v", "n", "d", ".", "k", "d", "e", ".", "k",
    "o", "n", "t", "o", "u", "r">>, "kon" >>, << <<"a", "p", "p", "l", "i",
    "c", "a", "t", "i", "o", "n", "/", "v", "n", "d", ".", "k", "d", "e",
    ".", "k", "p", "r", "e", "s", "e", "n", "t", "e", "r">>, "kpr" >>, <<
    <<"a", "p", "p", "l", "i", "c", "a", "t", "i", "o", "n", "/", "v", "n",
    "d", ".", "k", "d", "e", ".", "k", "s", "p", "r", "e", "a", "d">>, "ksp"
    >>, << <<"a", "p", "p", "l", "i", "c", "a", "t", "i", "o", "n", "/",
    "v", "n", "d", ".", "k", "d", "e", ".", "k", "w", "o", "r", "d">>, "kwd"
    >>, << <<"a", "p", "p", "l", "i", "c", "a", "t", "i", "o", "n", "/",
    "v", "n", "d", ".", "k", "e", "n", "a", "m", "e", "a", "a", "p", "p">>,
    "htke" >>, << <<"a", "p", "p", "l", "i", "c", "a", "t", "i", "o", "n",
    "/", "v", "n", "d", ".", "k", "i", "d", "s", "p", "i", "r", "a", "t",
    "i", "o", "n">>, "kia" >>, << <<"a", "p", "p", "l", "i", "c", "a", "t",
    "i", "o", "n", "/", "v", "n", "d", ".", "k", "o", "a", "n">>, "skp" >>,
    << <<"a", "p", "p", "l", "i", "c", "a", "t", "i", "o", "n", "/", "v",
    "n", "d", ".", "k", "o", "d", "a", "k", "-", "d", "e", "s", "c", "r",
    "i", "p", "t", "o", "r">>, "sse" >>, << <<"a", "p", "p", "l", "i", "c",
    "a", "t", "i", "o", "n", "/", "v", "n", "d", ".", "l", "a", "s">>, "las"
    >>, << <<"a", "p", "p", "l", "i", "c", "a", "t", "i", "o", "n", "/",
    "v", "n", "d", ".", "l", "a", "s", ".", "l", "a", "s", "+", "j", "s",
    "o", "n">>, "lasjson" >>, << <<"a", "p", "p", "l", "i", "c", "a", "t",
    "i", "o", "n", "/", "v", "n", "d", ".", "l", "a", "s", ".", "l", "a",
    "s", "+", "x", "m", "l">>, "lasxml" >>, << <<"a", "p", "p", "l", "i",
    "c", "a", "t", "i", "o", "n", "/", "v", "n", "d", ".", "l", "l", "a",
    "m", "a", "g", "r", "a", "p", "h", "i", "c", "s", ".", "l", "i", "f",
    "e", "-", "b", "a", "l", "a", "n", "c", "e", ".", "d", "e", "s", "k",
    "t", "o", "p">>, "lbd" >>, << <<"a", "p", "p", "l", "i", "c", "a", "t",
    "i", "o", "n", "/", "v", "n", "d", ".", "l", "l", "a", "m", "a", "g",
    "r", "a", "p", "h", "i", "c", "s", ".", "l", "i", "f", "e", "-", "b",
    "a", "l", "a", "n", "c", "e", ".", "e", "x", "c", "h", "a", "n", "g",
    "e", "+", "x", "m", "l">>, "lbe" >>, << <<"a", "p", "p", "l", "i", "c",
    "a", "t", "i", "o", "n", "/", "v", "n", "d", ".", "l", "o", "g", "i",
    "p", "i", "p", "e", ".", "c", "i", "r", "c", "u", "i", "t", "+", "z",
    "i", "p">>, "lcs" >>, << <<"a", "p", "p", "l", "i", "c", "a", "t", "i",
    "o", "n", "/", "v", "n", "d", ".", "l", "o", "o", "m">>, "loom" >>, <<
    <<"a", "p", "p", "l", "i", "c", "a", "t", "i", "o", "n", "/", "v", "n",
    "d", ".", "l", "o", "t", "u", "s", "-", "1", "-", "2", "-", "3">>, "123"
    >>, << <<"a", "p", "p", "l", "i", "c", "a", "t", "i", "o", "n", "/",
    "v", "n", "d", ".", "l", "o", "t", "u", "s", "-", "a", "p", "p", "r",
    "o", "a", "c", "h">>, "apr" >>, << <<"a", "p", "p", "l", "i", "c", "a",
    "t", "i", "o", "n", "/", "v", "n", "d", ".", "l", "o", "t", "u", "s",
    "-", "f", "r", "e", "e", "l", "a", "n", "c", "e">>, "prz" >>, << <<"a",
    "p", "p", "l", "i", "c", "a", "t", "i", "o", "n", "/", "v", "n", "d",
    ".", "l", "o", "t", "u", "s", "-", "n", "o", "t", "e", "s">>, "nsf" >>,
    << <<"a", "p", "p", "l", "i", "c", "a", "t", "i", "o", "n", "/", "v",
    "n", "d", ".", "l", "o", "t", "u", "s", "-", "o", "r", "g", "a", "n",
    "i", "z", "e", "r">>, "or3" >>, << <<"a", "p", "p", "l", "i", "c", "a",
    "t", "i", "o", "n", "/", "v", "n", "d", ".", "l", "o", "t", "u", "s",
    "-", "s", "c", "r", "e", "e", "n", "c", "a", "m">>, "scm" >>, << <<"a",
    "p", "p", "l", "i", "c", "a", "t", "i", "o", "n", "/", "v", "n", "d",
    ".", "l", "o", "t", "u", "s", "-", "w", "o", "r", "d", "p", "r", "o">>,
    "lwp" >>, << <<"a", "p", "p", "l", "i", "c", "a", "t", "i", "o", "n",
    "/", "v", "n", "d", ".", "m", "a", "c", "p", "o", "r", "t", "s", ".",
    "p", "o", "r", "t", "p", "k", "g">>, "portpkg" >>, << <<"a", "p", "p",
    "l", "i", "c", "a", "t", "i", "o", "n", "/", "v", "n", "d", ".", "m",
    "a", "p", "b", "o", "x", "-", "v", "e", "c", "t", "o", "r", "-", "t",
    "i", "l", "e">>, "mvt" >>, << <<"a", "p", "p", "l", "i", "c", "a", "t",
    "i", "o", "n", "/", "v", "n", "d", ".", "m", "a", "r", "l", "i", "n",
    ".", "d", "r", "m", ".", "m", "d", "c", "f">>, "mdc" >>, << <<"a", "p",
    "p", "l", "i", "c", "a", "t", "i", "o", "n", "/", "v", "n", "d", ".",
    "m", "a", "x", "a", "r", ".", "a", "r", "c", "h", "i", "v", "e", ".",
    "3", "t", "z", "+", "z", "i", "p">>, "3tz" >>, << <<"a", "p", "p", "l",
    "i", "c", "a", "t", "i", "o", "n", "/", "v", "n", "d", ".", "m", "a",
    "x", "m", "i", "n", "d", ".", "m", "a", "x", "m", "i", "n", "d", "-",
    "d", "b">>, "mmdb" >>, << <<"a", "p", "p", "l", "i", "c", "a", "t", "i",
    "o", "n", "/", "v", "n", "d", ".", "m", "c", "d">>, "mcd" >>, << <<"a",
    "p", "p", "l", "i", "c", "a", "t", "i", "o", "n", "/", "v", "n", "d",
    ".", "m", "e", "d", "c", "a", "l", "c", "d", "a", "t", "a">>, "mc1" >>,
    << <<"a", "p", "p", "l", "i", "c", "a", "t", "i", "o", "n", "/", "v",
    "n", "d", ".", "m", "e", "d", "i", "a", "s", "t", "a", "t", "i", "o",
    "n", ".", "c", "d", "k", "e", "y">>, "cdkey" >>, << <<"a", "p", "p",
    "l", "i", "c", "a", "t", "i", "o", "n", "/", "v", "n", "d", ".", "m",
    "e", "d", "i", "c", "a", "l", "h", "o", "l", "o", "d", "e", "c", "k",
    ".", "r", "e", "c", "o", "r", "d", "x", "r">>, "rxt" >>, << <<"a", "p",
    "p", "l", "i", "c", "a", "t", "i", "o", "n", "/", "v", "n", "d", ".",
    "m", "f", "m", "p">>, "mfm" >>, << <<"a", "p", "p", "l", "i", "c", "a",
    "t", "i", "o", "n", "/", "v", "n", "d", ".", "m", "i", "c", "r", "o",
    "g", "r", "a", "f", "x", ".", "f", "l", "o">>, "flo" >>, << <<"a", "p",
    "p", "l", "i", "c", "a", "t", "i", "o", "n", "/", "v", "n", "d", ".",
    "m", "i", "c", "r", "o", "g", "r", "a", "f", "x", ".", "i", "g", "x">>,
    "igx" >>, << <<"a", "p", "p", "l", "i", "c", "a", "t", "i", "o", "n",
    "/", "v", "n", "d", ".", "m", "i", "f">>, "mif" >>, << <<"a", "p", "p",
    "l", "i", "c", "a", "t", "i", "o", "n", "/", "v", "n", "d", ".", "m",
    "o", "p", "h", "u", "n", ".", "a", "p", "p", "l", "i", "c", "a", "t",
    "i", "o", "n">>, "mpn" >>, << <<"a", "p", "p", "l", "i", "c", "a", "t",
    "i", "o", "n", "/", "v", "n", "d", ".", "m", "o", "p", "h", "u", "n",
    ".", "c", "e", "r", "t", "i", "f", "i", "c", "a", "t", "e">>, "mpc" >>,
    << <<"a", "p", "p", "l", "i", "c", "a", "t", "i", "o", "n", "/", "v",
    "n", "d", ".", "m", "o", "z", "i", "l", "l", "a", ".", "x", "u", "l",
    "+", "x", "m", "l">>, "xul" >>, << <<"a", "p", "p", "l", "i", "c", "a",
    "t", "i", "o", "n", "/", "v", "n", "d", ".", "m", "s", "-", "3", "m",
    "f", "d", "o", "c", "u", "m", "e", "n", "t">>, "3mf" >>, << <<"a", "p",
    "p", "l", "i", "c", "a", "t", "i", "o", "n", "/", "v", "n", "d", ".",
    "m", "s", "-", "a", "r", "t", "g", "a", "l", "r", "y">>, "cil" >>, <<
    <<"a", "p", "p", "l", "i", "c", "a", "t", "i", "o", "n", "/", "v", "n",
    "d", ".", "m", "s", "-", "a", "s", "f">>, "asf" >>, << <<"a", "p", "p",
    "l", "i", "c", "a", "t", "i", "o", "n", "/", "v", "n", "d", ".", "m",
    "s", "-", "c", "a", "b", "-", "c", "o", "m", "p", "r", "e", "s", "s",
    "e", "d">>, "cab" >>, << <<"a", "p", "p", "l", "i", "c", "a", "t", "i",
    "o", "n", "/", "v", "n", "d", ".", "m", "s", "-", "e", "x", "c", "e",
    "l">>, "xls" >>, << <<"a", "p", "p", "l", "i", "c", "a", "t", "i", "o",
    "n", "/", "v", "n", "d", ".", "m", "s", "-", "f", "o", "n", "t", "o",
    "b", "j", "e", "c", "t">>, "eot" >>, << <<"a", "p", "p", "l", "i", "c",
    "a", "t", "i", "o", "n", "/", "v", "n", "d", ".", "m", "s", "-", "h",
    "t", "m", "l", "h", "e", "l", "p">>, "chm" >>, << <<"a", "p", "p", "l",
    "i", "c", "a", "t", "i", "o", "n", "/", "v", "n", "d", ".", "m", "s",
    "-", "i", "m", "s">>, "ims" >>, << <<"a", "p", "p", "l", "i", "c", "a",
    "t", "i", "o", "n", "/", "v", "n", "d", ".", "m", "s", "-", "l", "r",
    "m">>, "lrm" >>, << <<"a", "p", "p", "l", "i", "c", "a", "t", "i", "o",
    "n", "/", "v", "n", "d", ".", "m", "s", "-", "o", "f", "f", "i", "c",
    "e", "t", "h", "e", "m", "e">>, "thmx" >>, << <<"a", "p", "p", "l", "i",
    "c", "a", "t", "i", "o", "n", "/", "v", "n", "d", ".", "m", "s", "-",
    "p", "k", "i", ".", "s", "e", "c", "c", "a", "t">>, "cat" >>, << <<"a",
    "p", "p", "l", "i", "c", "a", "t", "i", "o", "n", "/", "v", "n", "d",
    ".", "m", "s", "-", "p", "o", "w", "e", "r", "p", "o", "i", "n", "t">>,
    "ppt" >>, << <<"a", "p", "p", "l", "i", "c", "a", "t", "i", "o", "n",
    "/", "v", "n", "d", ".", "m", "s", "-", "p", "r", "o", "j", "e", "c",
    "t">>, "mpp" >>, << <<"a", "p", "p", "l", "i", "c", "a", "t", "i", "o",
    "n", "/", "v", "n", "d", ".", "m", "s", "-", "t", "n", "e", "f">>,
    "tnef" >>, << <<"a", "p", "p", "l", "i", "c", "a", "t", "i", "o", "n",
    "/", "v", "n", "d", ".", "m", "s", "-", "w", "o", "r", "k", "s">>, "wcm"
    >>, << <<"a", "p", "p", "l", "i", "c", "a", "t", "i", "o", "n", "/",
    "v", "n", "d", ".", "m", "s", "-", "w", "p", "l">>, "wpl" >>, << <<"a",
    "p", "p", "l", "i", "c", "a", "t", "i", "o", "n", "/", "v", "n", "d",
    ".", "m", "s", "-", "x", "p", "s", "d", "o", "c", "u", "m", "e", "n",
    "t">>, "xps" >>, << <<"a", "p", "p", "l", "i", "c", "a", "t", "i", "o",
    "n", "/", "v", "n", "d", ".", "m", "s", "a", "-", "d", "i", "s", "k",
    "-", "i", "m", "a", "g", "e">>, "msa" >>, << <<"a", "p", "p", "l", "i",
    "c", "a", "t", "i", "o", "n", "/", "v", "n", "d", ".", "m", "s", "e",
    "q">>, "mseq" >>, << <<"a", "p", "p", "l", "i", "c", "a", "t", "i", "o",
    "n", "/", "v", "n", "d", ".", "m", "u", "l", "t", "i", "a", "d", ".",
    "c", "r", "e", "a", "t", "o", "r">>, "crtr" >>, << <<"a", "p", "p", "l",
    "i", "c", "a", "t", "i", "o", "n", "/", "v", "n", "d", ".", "m", "u",
    "l", "t", "i", "a", "d", ".", "c", "r", "e", "a", "t", "o", "r", ".",
    "c", "i", "f">>, "cif" >>, << <<"a", "p", "p", "l", "i", "c", "a", "t",
    "i", "o", "n", "/", "v", "n", "d", ".", "m", "u", "s", "i", "c", "i",
    "a", "n">>, "mus" >>, << <<"a", "p", "p", "l", "i", "c", "a", "t", "i",
    "o", "n", "/", "v", "n", "d", ".", "m", "u", "v", "e", "e", ".", "s",
    "t", "y", "l", "e">>, "msty" >>, << <<"a", "p", "p", "l", "i", "c", "a",
    "t", "i", "o", "n", "/", "v", "n", "d", ".", "m", "y", "n", "f", "c">>,
    "taglet" >>, << <<"a", "p", "p", "l", "i", "c", "a", "t", "i", "o", "n",
    "/", "v", "n", "d", ".", "n", "e", "b", "u", "m", "i", "n", "d", ".",
    "l", "i", "n", "e">>, "nebul" >>, << <<"a", "p", "p", "l", "i", "c",
    "a", "t", "i", "o", "n", "/", "v", "n", "d", ".", "n", "e", "r", "v",
    "a", "n", "a">>, "entity" >>, << <<"a", "p", "p", "l", "i", "c", "a",
    "t", "i", "o", "n", "/", "v", "n", "d", ".", "n", "e", "u", "r", "o",
    "l", "a", "n", "g", "u", "a", "g", "e", ".", "n", "l", "u">>, "nlu" >>,
    << <<"a", "p", "p", "l", "i", "c", "a", "t", "i", "o", "n", "/", "v",
    "n", "d", ".", "n", "i", "m", "n">>, "nimn" >>, << <<"a", "p", "p", "l",
    "i", "c", "a", "t", "i", "o", "n", "/", "v", "n", "d", ".", "n", "i",
    "n", "t", "e", "n", "d", "o", ".", "n", "i", "t", "r", "o", ".", "r",
    "o", "m">>, "nds" >>, << <<"a", "p", "p", "l", "i", "c", "a", "t", "i",
    "o", "n", "/", "v", "n", "d", ".", "n", "i", "n", "t", "e", "n", "d",
    "o", ".", "s", "n", "e", "s", ".", "r", "o", "m">>, "sfc" >>, << <<"a",
    "p", "p", "l", "i", "c", "a", "t", "i", "o", "n", "/", "v", "n", "d",
    ".", "n", "i", "t", "f">>, "nitf" >>, << <<"a", "p", "p", "l", "i", "c",
    "a", "t", "i", "o", "n", "/", "v", "n", "d", ".", "n", "o", "b", "l",
    "e", "n", "e", "t", "-", "d", "i", "r", "e", "c", "t", "o", "r", "y">>,
    "nnd" >>, << <<"a", "p", "p", "l", "i", "c", "a", "t", "i", "o", "n",
    "/", "v", "n", "d", ".", "n", "o", "b", "l", "e", "n", "e", "t", "-",
    "s", "e", "a", "l", "e", "r">>, "nns" >>, << <<"a", "p", "p", "l", "i",
    "c", "a", "t", "i", "o", "n", "/", "v", "n", "d", ".", "n", "o", "b",
    "l", "e", "n", "e", "t", "-", "w", "e", "b">>, "nnw" >>, << <<"a", "p",
    "p", "l", "i", "c", "a", "t", "i", "o", "n", "/", "v", "n", "d", ".",
    "n", "o", "k", "i", "a", ".", "n", "-", "g", "a", "g", "e", ".", "d",
    "a", "t", "a">>, "ngdat" >>, << <<"a", "p", "p", "l", "i", "c", "a",
    "t", "i", "o", "n", "/", "v", "n", "d", ".", "n", "o", "k", "i", "a",
    ".", "r", "a", "d", "i", "o", "-", "p", "r", "e", "s", "e", "t">>,
    "rpst" >>, << <<"a", "p", "p", "l", "i", "c", "a", "t", "i", "o", "n",
    "/", "v", "n", "d", ".", "n", "o", "k", "i", "a", ".", "r", "a", "d",
    "i", "o", "-", "p", "r", "e", "s", "e", "t", "s">>, "rpss" >>, << <<"a",
    "p", "p", "l", "i", "c", "a", "t", "i", "o", "n", "/", "v", "n", "d",
    ".", "o", "a", "s", "i", "s", ".", "o", "p", "e", "n", "d", "o", "c",
    "u", "m", "e", "n", "t", ".", "b", "a", "s", "e">>, "odb" >>, << <<"a",
    "p", "p", "l", "i", "c", "a", "t", "i", "o", "n", "/", "v", "n", "d",
    ".", "o", "a", "s", "i", "s", ".", "o", "p", "e", "n", "d", "o", "c",
    "u", "m", "e", "n", "t", ".", "c", "h", "a", "r", "t">>, "odc" >>, <<
    <<"a", "p", "p", "l", "i", "c", "a", "t", "i", "o", "n", "/", "v", "n",
    "d", ".", "o", "a", "s", "i", "s", ".", "o", "p", "e", "n", "d", "o",
    "c", "u", "m", "e", "n", "t", ".", "c", "h", "a", "r", "t", "-", "t",
    "e", "m", "p", "l", "a", "t", "e">>, "otc" >>, << <<"a", "p", "p", "l",
    "i", "c", "a", "t", "i", "o", "n", "/", "v", "n", "d", ".", "o", "a",
    "s", "i", "s", ".", "o", "p", "e", "n", "d", "o", "c", "u", "m", "e",
    "n", "t", ".", "f", "o", "r", "m", "u", "l", "a">>, "odf" >>, << <<"a",
    "p", "p", "l", "i", "c", "a", "t", "i", "o", "n", "/", "v", "n", "d",
    ".", "o", "a", "s", "i", "s", ".", "o", "p", "e", "n", "d", "o", "c",
    "u", "m", "e", "n", "t", ".", "g", "r", "a", "p", "h", "i", "c", "s">>,
    "odg" >>, << <<"a", "p", "p", "l", "i", "c", "a", "t", "i", "o", "n",
    "/", "v", "n", "d", ".", "o", "a", "s", "i", "s", ".", "o", "p", "e",
    "n", "d", "o", "c", "u", "m", "e", "n", "t", ".", "g", "r", "a", "p",
    "h", "i", "c", "s", "-", "t", "e", "m", "p", "l", "a", "t", "e">>, "otg"
    >>, << <<"a", "p", "p", "l", "i", "c", "a", "t", "i", "o", "n", "/",
    "v", "n", "d", ".", "o", "a", "s", "i", "s", ".", "o", "p", "e", "n",
    "d", "o", "c", "u", "m", "e", "n", "t", ".", "i", "m", "a", "g", "e">>,
    "odi" >>, << <<"a", "p", "p", "l", "i", "c", "a", "t", "i", "o", "n",
    "/", "v", "n", "d", ".", "o", "a", "s", "i", "s", ".", "o", "p", "e",
    "n", "d", "o", "c", "u", "m", "e", "n", "t", ".", "i", "m", "a", "g",
    "e", "-", "t", "e", "m", "p", "l", "a", "t", "e">>, "oti" >>, << <<"a",
    "p", "p", "l", "i", "c", "a", "t", "i", "o", "n", "/", "v", "n", "d",
    ".", "o", "a", "s", "i", "s", ".", "o", "p", "e", "n", "d", "o", "c",
    "u", "m", "e", "n", "t", ".", "p", "r", "e", "s", "e", "n", "t", "a",
    "t", "i", "o", "n">>, "odp" >>, << <<"a", "p", "p", "l", "i", "c", "a",
    "t", "i", "o", "n", "/", "v", "n", "d", ".", "o", "a", "s", "i", "s",
    ".", "o", "p", "e", "n", "d", "o", "c", "u", "m", "e", "n", "t", ".",
    "p", "r", "e", "s", "e", "n", "t", "a", "t", "i", "o", "n", "-", "t",
    "e", "m", "p", "l", "a", "t", "e">>, "otp" >>, << <<"a", "p", "p", "l",
    "i", "c", "a", "t", "i", "o", "n", "/", "v", "n", "d", ".", "o", "a",
    "s", "i", "s", ".", "o", "p", "e", "n", "d", "o", "c", "u", "m", "e",
    "n", "t", ".", "s", "p", "r", "e", "a", "d", "s", "h", "e", "e", "t">>,
    "ods" >>, << <<"a", "p", "p", "l", "i", "c", "a", "t", "i", "o", "n",
    "/", "v", "n", "d", ".", "o", "a", "s", "i", "s", ".", "o", "p", "e",
    "n", "d", "o", "c", "u", "m", "e", "n", "t", ".", "s", "p", "r", "e",
    "a", "d", "s", "h", "e", "e", "t", "-", "t", "e", "m", "p", "l", "a",
    "t", "e">>, "ots" >>, << <<"a", "p", "p", "l", "i", "c", "a", "t", "i",
    "o", "n", "/", "v", "n", "d", ".", "o", "a", "s", "i", "s", ".", "o",
    "p", "e", "n", "d", "o", "c", "u", "m", "e", "n", "t", ".", "t", "e",
    "x", "t">>, "odt" >>, << <<"a", "p", "p", "l", "i", "c", "a", "t", "i",
    "o", "n", "/", "v", "n", "d", ".", "o", "a", "s", "i", "s", ".", "o",
    "p", "e", "n", "d", "o", "c", "u", "m", "e", "n", "t", ".", "t", "e",
    "x", "t", "-", "m", "a", "s", "t", "e", "r">>, "odm" >>, << <<"a", "p",
    "p", "l", "i", "c", "a", "t", "i", "o", "n", "/", "v", "n", "d", ".",
    "o", "a", "s", "i", "s", ".", "o", "p", "e", "n", "d", "o", "c", "u",
    "m", "e", "n", "t", ".", "t", "e", "x", "t", "-", "t", "e", "m", "p",
    "l", "a", "t", "e">>, "ott" >>, << <<"a", "p", "p", "l", "i", "c", "a",
    "t", "i", "o", "n", "/", "v", "n", "d", ".", "o", "a", "s", "i", "s",
    ".", "o", "p", "e", "n", "d", "o", "c", "u", "m", "e", "n", "t", ".",
    "t", "e", "x", "t", "-", "w", "e", "b">>, "oth" >>, << <<"a", "p", "p",
    "l", "i", "c", "a", "t", "i", "o", "n", "/", "v", "n", "d", ".", "o",
    "l", "p", "c", "-", "s", "u", "g", "a", "r">>, "xo" >>, << <<"a", "p",
    "p", "l", "i", "c", "a", "t", "i", "o", "n", "/", "v", "n", "d", ".",
    "o", "m", "a", ".", "d", "d", "2", "+", "x", "m", "l">>, "dd2" >>, <<
    <<"a", "p", "p", "l", "i", "c", "a", "t", "i", "o", "n", "/", "v", "n",
    "d", ".", "o", "n", "e", "p", "a", "g", "e", "r">>, "tam" >>, << <<"a",
    "p", "p", "l", "i", "c", "a", "t", "i", "o", "n", "/", "v", "n", "d",
    ".", "o", "n", "e", "p", "a", "g", "e", "r", "t", "a", "m", "p">>,
    "tamp" >>, << <<"a", "p", "p", "l", "i", "c", "a", "t", "i", "o", "n",
    "/", "v", "n", "d", ".", "o", "n", "e", "p", "a", "g", "e", "r", "t",
    "a", "m", "x">>, "tamx" >>, << <<"a", "p", "p", "l", "i", "c", "a", "t",
    "i", "o", "n", "/", "v", "n", "d", ".", "o", "n", "e", "p", "a", "g",
    "e", "r", "t", "a", "t">>, "tat" >>, << <<"a", "p", "p", "l", "i", "c",
    "a", "t", "i", "o", "n", "/", "v", "n", "d", ".", "o", "n", "e", "p",
    "a", "g", "e", "r", "t", "a", "t", "p">>, "tatp" >>, << <<"a", "p", "p",
    "l", "i", "c", "a", "t", "i", "o", "n", "/", "v", "n", "d", ".", "o",
    "n", "e", "p", "a", "g", "e", "r", "t", "a", "t", "x">>, "tatx" >>, <<
    <<"a", "p", "p", "l", "i", "c", "a", "t", "i", "o", "n", "/", "v", "n",
    "d", ".", "o", "p", "e", "n", "b", "l", "o", "x", ".", "g", "a", "m",
    "e", "+", "x", "m", "l">>, "obgx" >>, << <<"a", "p", "p", "l", "i", "c",
    "a", "t", "i", "o", "n", "/", "v", "n", "d", ".", "o", "p", "e", "n",
    "b", "l", "o", "x", ".", "g", "a", "m", "e", "-", "b", "i", "n", "a",
    "r", "y">>, "obg" >>, << <<"a", "p", "p", "l", "i", "c", "a", "t", "i",
    "o", "n", "/", "v", "n", "d", ".", "o", "p", "e", "n", "e", "y", "e",
    ".", "o", "e", "b">>, "oeb" >>, << <<"a", "p", "p", "l", "i", "c", "a",
    "t", "i", "o", "n", "/", "v", "n", "d", ".", "o", "p", "e", "n", "o",
    "f", "f", "i", "c", "e", "o", "r", "g", ".", "e", "x", "t", "e", "n",
    "s", "i", "o", "n">>, "oxt" >>, << <<"a", "p", "p", "l", "i", "c", "a",
    "t", "i", "o", "n", "/", "v", "n", "d", ".", "o", "p", "e", "n", "s",
    "t", "r", "e", "e", "t", "m", "a", "p", ".", "d", "a", "t", "a", "+",
    "x", "m", "l">>, "osm" >>, << <<"a", "p", "p", "l", "i", "c", "a", "t",
    "i", "o", "n", "/", "v", "n", "d", ".", "o", "p", "e", "n", "x", "m",
    "l", "f", "o", "r", "m", "a", "t", "s", "-", "o", "f", "f", "i", "c",
    "e", "d", "o", "c", "u", "m", "e", "n", "t", ".", "p", "r", "e", "s",
    "e", "n", "t", "a", "t", "i", "o", "n", "m", "l", ".", "p", "r", "e",
    "s", "e", "n", "t", "a", "t", "i", "o", "n">>, "pptx" >>, << <<"a", "p",
    "p", "l", "i", "c", "a", "t", "i", "o", "n", "/", "v", "n", "d", ".",
    "o", "p", "e", "n", "x", "m", "l", "f", "o", "r", "m", "a", "t", "s",
    "-", "o", "f", "f", "i", "c", "e", "d", "o", "c", "u", "m", "e", "n",
    "t", ".", "p", "r", "e", "s", "e", "n", "t", "a", "t", "i", "o", "n",
    "m", "l", ".", "s", "l", "i", "d", "e">>, "sldx" >>, << <<"a", "p", "p",
    "l", "i", "c", "a", "t", "i", "o", "n", "/", "v", "n", "d", ".", "o",
    "p", "e", "n", "x", "m", "l", "f", "o", "r", "m", "a", "t", "s", "-",
    "o", "f", "f", "i", "c", "e", "d", "o", "c", "u", "m", "e", "n", "t",
    ".", "p", "r", "e", "s", "e", "n", "t", "a", "t", "i", "o", "n", "m",
    "l", ".", "s", "l", "i", "d", "e", "s", "h", "o", "w">>, "ppsx" >>, <<
    <<"a", "p", "p", "l", "i", "c", "a", "t", "i", "o", "n", "/", "v", "n",
    "d", ".", "o", "p", "e", "n", "x", "m", "l", "f", "o", "r", "m", "a",
    "t", "s", "-", "o", "f", "f", "i", "c", "e", "d", "o", "c", "u", "m",
    "e", "n", "t", ".", "p", "r", "e", "s", "e", "n", "t", "a", "t", "i",
    "o", "n", "m", "l", ".", "t", "e", "m", "p", "l", "a", "t", "e">>,
    "potx" >>, << <<"a", "p", "p", "l", "i", "c", "a", "t", "i", "o", "n",
    "/", "v", "n", "d", ".", "o", "p", "e", "n", "x", "m", "l", "f", "o",
    "r", "m", "a", "t", "s", "-", "o", "f", "f", "i", "c", "e", "d", "o",
    "c", "u", "m", "e", "n", "t", ".", "s", "p", "r", "e", "a", "d", "s",
    "h", "e", "e", "t", "m", "l", ".", "s", "h", "e", "e", "t">>, "xlsx" >>,
    << <<"a", "p", "p", "l", "i", "c", "a", "t", "i", "o", "n", "/", "v",
    "n", "d", ".", "o", "p", "e", "n", "x", "m", "l", "f", "o", "r", "m",
    "a", "t", "s", "-", "o", "f", "f", "i", "c", "e", "d", "o", "c", "u",
    "m", "e", "n", "t", ".", "s", "p", "r", "e", "a", "d", "s", "h", "e",
    "e", "t", "m", "l", ".", "t", "e", "m", "p", "l", "a", "t", "e">>,
    "xltx" >>, << <<"a", "p", "p", "l", "i", "c", "a", "t", "i", "o", "n",
    "/", "v", "n", "d", ".", "o", "p", "e", "n", "x", "m", "l", "f", "o",
    "r", "m", "a", "t", "s", "-", "o", "f", "f", "i", "c", "e", "d", "o",
    "c", "u", "m", "e", "n", "t", ".", "w", "o", "r", "d", "p", "r", "o",
    "c", "e", "s", "s", "i", "n", "g", "m", "l", ".", "d", "o", "c", "u",
    "m", "e", "n", "t">>, "docx" >>, << <<"a", "p", "p", "l", "i", "c", "a",
    "t", "i", "o", "n", "/", "v", "n", "d", ".", "o", "p", "e", "n", "x",
    "m", "l", "f", "o", "r", "m", "a", "t", "s", "-", "o", "f", "f", "i",
    "c", "e", "d", "o", "c", "u", "m", "e", "n", "t", ".", "w", "o", "r",
    "d", "p", "r", "o", "c", "e", "s", "s", "i", "n", "g", "m", "l", ".",
    "t", "e", "m", "p", "l", "a", "t", "e">>, "dotx" >>, << <<"a", "p", "p",
    "l", "i", "c", "a", "t", "i", "o", "n", "/", "v", "n", "d", ".", "o",
    "s", "a", ".", "n", "e", "t", "d", "e", "p", "l", "o", "y">>, "ndc" >>,
    << <<"a", "p", "p", "l", "i", "c", "a", "t", "i", "o", "n", "/", "v",
    "n", "d", ".", "o", "s", "g", "e", "o", ".", "m", "a", "p", "g", "u",
    "i", "d", "e", ".", "p", "a", "c", "k", "a", "g", "e">>, "mgp" >>, <<
    <<"a", "p", "p", "l", "i", "c", "a", "t", "i", "o", "n", "/", "v", "n",
    "d", ".", "o", "s", "g", "i", ".", "d", "p">>, "dp" >>, << <<"a", "p",
    "p", "l", "i", "c", "a", "t", "i", "o", "n", "/", "v", "n", "d", ".",
    "o", "s", "g", "i", ".", "s", "u", "b", "s", "y", "s", "t", "e", "m">>,
    "esa" >>, << <<"a", "p", "p", "l", "i", "c", "a", "t", "i", "o", "n",
    "/", "v", "n", "d", ".", "o", "x", "l", "i", ".", "c", "o", "u", "n",
    "t", "g", "r", "a", "p", "h">>, "oxlicg" >>, << <<"a", "p", "p", "l",
    "i", "c", "a", "t", "i", "o", "n", "/", "v", "n", "d", ".", "p", "a",
    "l", "m">>, "pdb" >>, << <<"a", "p", "p", "l", "i", "c", "a", "t", "i",
    "o", "n", "/", "v", "n", "d", ".", "p", "a", "n", "o", "p", "l", "y">>,
    "plp" >>, << <<"a", "p", "p", "l", "i", "c", "a", "t", "i", "o", "n",
    "/", "v", "n", "d", ".", "p", "a", "t", "e", "n", "t", "d", "i", "v",
    "e">>, "dive" >>, << <<"a", "p", "p", "l", "i", "c", "a", "t", "i", "o",
    "n", "/", "v", "n", "d", ".", "p", "a", "w", "a", "a", "f", "i", "l",
    "e">>, "paw" >>, << <<"a", "p", "p", "l", "i", "c", "a", "t", "i", "o",
    "n", "/", "v", "n", "d", ".", "p", "g", ".", "f", "o", "r", "m", "a",
    "t">>, "str" >>, << <<"a", "p", "p", "l", "i", "c", "a", "t", "i", "o",
    "n", "/", "v", "n", "d", ".", "p", "g", ".", "o", "s", "a", "s", "l",
    "i">>, "ei6" >>, << <<"a", "p", "p", "l", "i", "c", "a", "t", "i", "o",
    "n", "/", "v", "n", "d", ".", "p", "i", "a", "c", "c", "e", "s", "s",
    ".", "a", "p", "p", "l", "i", "c", "a", "t", "i", "o", "n", "-", "l",
    "i", "c", "e", "n", "c", "e">>, "pil" >>, << <<"a", "p", "p", "l", "i",
    "c", "a", "t", "i", "o", "n", "/", "v", "n", "d", ".", "p", "i", "c",
    "s", "e", "l">>, "efif" >>, << <<"a", "p", "p", "l", "i", "c", "a", "t",
    "i", "o", "n", "/", "v", "n", "d", ".", "p", "m", "i", ".", "w", "i",
    "d", "g", "e", "t">>, "wg" >>, << <<"a", "p", "p", "l", "i", "c", "a",
    "t", "i", "o", "n", "/", "v", "n", "d", ".", "p", "o", "c", "k", "e",
    "t", "l", "e", "a", "r", "n">>, "plf" >>, << <<"a", "p", "p", "l", "i",
    "c", "a", "t", "i", "o", "n", "/", "v", "n", "d", ".", "p", "o", "w",
    "e", "r", "b", "u", "i", "l", "d", "e", "r", "6">>, "pbd" >>, << <<"a",
    "p", "p", "l", "i", "c", "a", "t", "i", "o", "n", "/", "v", "n", "d",
    ".", "p", "r", "e", "m", "i", "n", "e", "t">>, "preminet" >>, << <<"a",
    "p", "p", "l", "i", "c", "a", "t", "i", "o", "n", "/", "v", "n", "d",
    ".", "p", "r", "e", "v", "i", "e", "w", "s", "y", "s", "t", "e", "m",
    "s", ".", "b", "o", "x">>, "box" >>, << <<"a", "p", "p", "l", "i", "c",
    "a", "t", "i", "o", "n", "/", "v", "n", "d", ".", "p", "r", "o", "t",
    "e", "u", "s", ".", "m", "a", "g", "a", "z", "i", "n", "e">>, "mgz" >>,
    << <<"a", "p", "p", "l", "i", "c", "a", "t", "i", "o", "n", "/", "v",
    "n", "d", ".", "p", "s", "f", "s">>, "psfs" >>, << <<"a", "p", "p", "l",
    "i", "c", "a", "t", "i", "o", "n", "/", "v", "n", "d", ".", "p", "u",
    "b", "l", "i", "s", "h", "a", "r", "e", "-", "d", "e", "l", "t", "a",
    "-", "t", "r", "e", "e">>, "qps" >>, << <<"a", "p", "p", "l", "i", "c",
    "a", "t", "i", "o", "n", "/", "v", "n", "d", ".", "p", "v", "i", ".",
    "p", "t", "i", "d", "1">>, "ptid" >>, << <<"a", "p", "p", "l", "i", "c",
    "a", "t", "i", "o", "n", "/", "v", "n", "d", ".", "q", "u", "a", "l",
    "c", "o", "m", "m", ".", "b", "r", "e", "w", "-", "a", "p", "p", "-",
    "r", "e", "s">>, "bar" >>, << <<"a", "p", "p", "l", "i", "c", "a", "t",
    "i", "o", "n", "/", "v", "n", "d", ".", "q", "u", "o", "b", "j", "e",
    "c", "t", "-", "q", "u", "o", "x", "d", "o", "c", "u", "m", "e", "n",
    "t">>, "quox" >>, << <<"a", "p", "p", "l", "i", "c", "a", "t", "i", "o",
    "n", "/", "v", "n", "d", ".", "r", "a", "i", "n", "s", "t", "o", "r",
    ".", "d", "a", "t", "a">>, "tree" >>, << <<"a", "p", "p", "l", "i", "c",
    "a", "t", "i", "o", "n", "/", "v", "n", "d", ".", "r", "a", "r">>, "rar"
    >>, << <<"a", "p", "p", "l", "i", "c", "a", "t", "i", "o", "n", "/",
    "v", "n", "d", ".", "r", "e", "a", "l", "v", "n", "c", ".", "b", "e",
    "d">>, "bed" >>, << <<"a", "p", "p", "l", "i", "c", "a", "t", "i", "o",
    "n", "/", "v", "n", "d", ".", "r", "e", "c", "o", "r", "d", "a", "r",
    "e", ".", "m", "u", "s", "i", "c", "x", "m", "l">>, "mxl" >>, << <<"a",
    "p", "p", "l", "i", "c", "a", "t", "i", "o", "n", "/", "v", "n", "d",
    ".", "r", "e", "s", "i", "l", "i", "e", "n", "t", ".", "l", "o", "g",
    "i", "c">>, "rlm" >>, << <<"a", "p", "p", "l", "i", "c", "a", "t", "i",
    "o", "n", "/", "v", "n", "d", ".", "r", "i", "g", ".", "c", "r", "y",
    "p", "t", "o", "n", "o", "t", "e">>, "cryptonote" >>, << <<"a", "p",
    "p", "l", "i", "c", "a", "t", "i", "o", "n", "/", "v", "n", "d", ".",
    "r", "i", "m", ".", "c", "o", "d">>, "cod" >>, << <<"a", "p", "p", "l",
    "i", "c", "a", "t", "i", "o", "n", "/", "v", "n", "d", ".", "r", "o",
    "u", "t", "e", "6", "6", ".", "l", "i", "n", "k", "6", "6", "+", "x",
    "m", "l">>, "link66" >>, << <<"a", "p", "p", "l", "i", "c", "a", "t",
    "i", "o", "n", "/", "v", "n", "d", ".", "s", "a", "i", "l", "i", "n",
    "g", "t", "r", "a", "c", "k", "e", "r", ".", "t", "r", "a", "c", "k">>,
    "st" >>, << <<"a", "p", "p", "l", "i", "c", "a", "t", "i", "o", "n",
    "/", "v", "n", "d", ".", "s", "a", "r">>, "SAR" >>, << <<"a", "p", "p",
    "l", "i", "c", "a", "t", "i", "o", "n", "/", "v", "n", "d", ".", "s",
    "c", "r", "i", "b", "u", "s">>, "scd" >>, << <<"a", "p", "p", "l", "i",
    "c", "a", "t", "i", "o", "n", "/", "v", "n", "d", ".", "s", "e", "a",
    "l", "e", "d", ".", "3", "d", "f">>, "s3df" >>, << <<"a", "p", "p", "l",
    "i", "c", "a", "t", "i", "o", "n", "/", "v", "n", "d", ".", "s", "e",
    "a", "l", "e", "d", ".", "c", "s", "f">>, "scsf" >>, << <<"a", "p", "p",
    "l", "i", "c", "a", "t", "i", "o", "n", "/", "v", "n", "d", ".", "s",
    "e", "a", "l", "e", "d", ".", "d", "o", "c">>, "sdoc" >>, << <<"a", "p",
    "p", "l", "i", "c", "a", "t", "i", "o", "n", "/", "v", "n", "d", ".",
    "s", "e", "a", "l", "e", "d", ".", "e", "m", "l">>, "seml" >>, << <<"a",
    "p", "p", "l", "i", "c", "a", "t", "i", "o", "n", "/", "v", "n", "d",
    ".", "s", "e", "a", "l", "e", "d", ".", "m", "h", "t">>, "smht" >>, <<
    <<"a", "p", "p", "l", "i", "c", "a", "t", "i", "o", "n", "/", "v", "n",
    "d", ".", "s", "e", "a", "l", "e", "d", ".", "p", "p", "t">>, "sppt" >>,
    << <<"a", "p", "p", "l", "i", "c", "a", "t", "i", "o", "n", "/", "v",
    "n", "d", ".", "s", "e", "a", "l", "e", "d", ".", "t", "i", "f", "f">>,
    "stif" >>, << <<"a", "p", "p", "l", "i", "c", "a", "t", "i", "o", "n",
    "/", "v", "n", "d", ".", "s", "e", "a", "l", "e", "d", ".", "x", "l",
    "s">>, "sxls" >>, << <<"a", "p", "p", "l", "i", "c", "a", "t", "i", "o",
    "n", "/", "v", "n", "d", ".", "s", "e", "a", "l", "e", "d", "m", "e",
    "d", "i", "a", ".", "s", "o", "f", "t", "s", "e", "a", "l", ".", "h",
    "t", "m", "l">>, "stml" >>, << <<"a", "p", "p", "l", "i", "c", "a", "t",
    "i", "o", "n", "/", "v", "n", "d", ".", "s", "e", "a", "l", "e", "d",
    "m", "e", "d", "i", "a", ".", "s", "o", "f", "t", "s", "e", "a", "l",
    ".", "p", "d", "f">>, "spdf" >>, << <<"a", "p", "p", "l", "i", "c", "a",
    "t", "i", "o", "n", "/", "v", "n", "d", ".", "s", "e", "e", "m", "a",
    "i", "l">>, "see" >>, << <<"a", "p", "p", "l", "i", "c", "a", "t", "i",
    "o", "n", "/", "v", "n", "d", ".", "s", "e", "m", "a">>, "sema" >>, <<
    <<"a", "p", "p", "l", "i", "c", "a", "t", "i", "o", "n", "/", "v", "n",
    "d", ".", "s", "e", "m", "d">>, "semd" >>, << <<"a", "p", "p", "l", "i",
    "c", "a", "t", "i", "o", "n", "/", "v", "n", "d", ".", "s", "e", "m",
    "f">>, "semf" >>, << <<"a", "p", "p", "l", "i", "c", "a", "t", "i", "o",
    "n", "/", "v", "n", "d", ".", "s", "h", "a", "d", "e", "-", "s", "a",
    "v", "e", "-", "f", "i", "l", "e">>, "ssv" >>, << <<"a", "p", "p", "l",
    "i", "c", "a", "t", "i", "o", "n", "/", "v", "n", "d", ".", "s", "h",
    "a", "n", "a", ".", "i", "n", "f", "o", "r", "m", "e", "d", ".", "f",
    "o", "r", "m", "d", "a", "t", "a">>, "ifm" >>, << <<"a", "p", "p", "l",
    "i", "c", "a", "t", "i", "o", "n", "/", "v", "n", "d", ".", "s", "h",
    "a", "n", "a", ".", "i", "n", "f", "o", "r", "m", "e", "d", ".", "f",
    "o", "r", "m", "t", "e", "m", "p", "l", "a", "t", "e">>, "itp" >>, <<
    <<"a", "p", "p", "l", "i", "c", "a", "t", "i", "o", "n", "/", "v", "n",
    "d", ".", "s", "h", "a", "n", "a", ".", "i", "n", "f", "o", "r", "m",
    "e", "d", ".", "i", "n", "t", "e", "r", "c", "h", "a", "n", "g", "e">>,
    "iif" >>, << <<"a", "p", "p", "l", "i", "c", "a", "t", "i", "o", "n",
    "/", "v", "n", "d", ".", "s", "h", "a", "n", "a", ".", "i", "n", "f",
    "o", "r", "m", "e", "d", ".", "p", "a", "c", "k", "a", "g", "e">>, "ipk"
    >>, << <<"a", "p", "p", "l", "i", "c", "a", "t", "i", "o", "n", "/",
    "v", "n", "d", ".", "s", "h", "p">>, "shp" >>, << <<"a", "p", "p", "l",
    "i", "c", "a", "t", "i", "o", "n", "/", "v", "n", "d", ".", "s", "h",
    "x">>, "shx" >>, << <<"a", "p", "p", "l", "i", "c", "a", "t", "i", "o",
    "n", "/", "v", "n", "d", ".", "s", "i", "g", "r", "o", "k", ".", "s",
    "e", "s", "s", "i", "o", "n">>, "sr" >>, << <<"a", "p", "p", "l", "i",
    "c", "a", "t", "i", "o", "n", "/", "v", "n", "d", ".", "s", "m", "a",
    "f">>, "mmf" >>, << <<"a", "p", "p", "l", "i", "c", "a", "t", "i", "o",
    "n", "/", "v", "n", "d", ".", "s", "m", "a", "r", "t", ".", "n", "o",
    "t", "e", "b", "o", "o", "k">>, "notebook" >>, << <<"a", "p", "p", "l",
    "i", "c", "a", "t", "i", "o", "n", "/", "v", "n", "d", ".", "s", "m",
    "a", "r", "t", ".", "t", "e", "a", "c", "h", "e", "r">>, "teacher" >>,
    << <<"a", "p", "p", "l", "i", "c", "a", "t", "i", "o", "n", "/", "v",
    "n", "d", ".", "s", "n", "e", "s", "d", "e", "v", "-", "p", "a", "g",
    "e", "-", "t", "a", "b", "l", "e">>, "ptrom" >>, << <<"a", "p", "p",
    "l", "i", "c", "a", "t", "i", "o", "n", "/", "v", "n", "d", ".", "s",
    "o", "f", "t", "w", "a", "r", "e", "6", "0", "2", ".", "f", "i", "l",
    "l", "e", "r", ".", "f", "o", "r", "m", "+", "x", "m", "l">>, "fo" >>,
    << <<"a", "p", "p", "l", "i", "c", "a", "t", "i", "o", "n", "/", "v",
    "n", "d", ".", "s", "o", "f", "t", "w", "a", "r", "e", "6", "0", "2",
    ".", "f", "i", "l", "l", "e", "r", ".", "f", "o", "r", "m", "-", "x",
    "m", "l", "-", "z", "i", "p">>, "zfo" >>, << <<"a", "p", "p", "l", "i",
    "c", "a", "t", "i", "o", "n", "/", "v", "n", "d", ".", "s", "o", "l",
    "e", "n", "t", ".", "s", "d", "k", "m", "+", "x", "m", "l">>, "sdkm" >>,
    << <<"a", "p", "p", "l", "i", "c", "a", "t", "i", "o", "n", "/", "v",
    "n", "d", ".", "s", "p", "o", "t", "f", "i", "r", "e", ".", "d", "x",
    "p">>, "dxp" >>, << <<"a", "p", "p", "l", "i", "c", "a", "t", "i", "o",
    "n", "/", "v", "n", "d", ".", "s", "p", "o", "t", "f", "i", "r", "e",
    ".", "s", "f", "s">>, "sfs" >>, << <<"a", "p", "p", "l", "i", "c", "a",
    "t", "i", "o", "n", "/", "v", "n", "d", ".", "s", "q", "l", "i", "t",
    "e", "3">>, "sqlite" >>, << <<"a", "p", "p", "l", "i", "c", "a", "t",
    "i", "o", "n", "/", "v", "n", "d", ".", "s", "t", "a", "r", "d", "i",
    "v", "i", "s", "i", "o", "n", ".", "c", "a", "l", "c">>, "sdc" >>, <<
    <<"a", "p", "p", "l", "i", "c", "a", "t", "i", "o", "n", "/", "v", "n",
    "d", ".", "s", "t", "a", "r", "d", "i", "v", "i", "s", "i", "o", "n",
    ".", "c", "h", "a", "r", "t">>, "sds" >>, << <<"a", "p", "p", "l", "i",
    "c", "a", "t", "i", "o", "n", "/", "v", "n", "d", ".", "s", "t", "a",
    "r", "d", "i", "v", "i", "s", "i", "o", "n", ".", "d", "r", "a", "w">>,
    "sda" >>, << <<"a", "p", "p", "l", "i", "c", "a", "t", "i", "o", "n",
    "/", "v", "n", "d", ".", "s", "t", "a", "r", "d", "i", "v", "i", "s",
    "i", "o", "n", ".", "i", "m", "p", "r", "e", "s", "s">>, "sdd" >>, <<
    <<"a", "p", "p", "l", "i", "c", "a", "t", "i", "o", "n", "/", "v", "n",
    "d", ".", "s", "t", "a", "r", "d", "i", "v", "i", "s", "i", "o", "n",
    ".", "m", "a", "t", "h">>, "smf" >>, << <<"a", "p", "p", "l", "i", "c",
    "a", "t", "i", "o", "n", "/", "v", "n", "d", ".", "s", "t", "a", "r",
    "d", "i", "v", "i", "s", "i", "o", "n", ".", "w", "r", "i", "t", "e",
    "r">>, "sdw" >>, << <<"a", "p", "p", "l", "i", "c", "a", "t", "i", "o",
    "n", "/", "v", "n", "d", ".", "s", "t", "a", "r", "d", "i", "v", "i",
    "s", "i", "o", "n", ".", "w", "r", "i", "t", "e", "r", "-", "g", "l",
    "o", "b", "a", "l">>, "sgl" >>, << <<"a", "p", "p", "l", "i", "c", "a",
    "t", "i", "o", "n", "/", "v", "n", "d", ".", "s", "t", "e", "p", "m",
    "a", "n", "i", "a", ".", "p", "a", "c", "k", "a", "g", "e">>, "smzip"
    >>, << <<"a", "p", "p", "l", "i", "c", "a", "t", "i", "o", "n", "/",
    "v", "n", "d", ".", "s", "t", "e", "p", "m", "a", "n", "i", "a", ".",
    "s", "t", "e", "p", "c", "h", "a", "r", "t">>, "sm" >>, << <<"a", "p",
    "p", "l", "i", "c", "a", "t", "i", "o", "n", "/", "v", "n", "d", ".",
    "s", "u", "n", ".", "w", "a", "d", "l", "+", "x", "m", "l">>, "wadl" >>,
    << <<"a", "p", "p", "l", "i", "c", "a", "t", "i", "o", "n", "/", "v",
    "n", "d", ".", "s", "u", "n", ".", "x", "m", "l", ".", "c", "a", "l",
    "c">>, "sxc" >>, << <<"a", "p", "p", "l", "i", "c", "a", "t", "i", "o",
    "n", "/", "v", "n", "d", ".", "s", "u", "n", ".", "x", "m", "l", ".",
    "c", "a", "l", "c", ".", "t", "e", "m", "p", "l", "a", "t", "e">>, "stc"
    >>, << <<"a", "p", "p", "l", "i", "c", "a", "t", "i", "o", "n", "/",
    "v", "n", "d", ".", "s", "u", "n", ".", "x", "m", "l", ".", "d", "r",
    "a", "w">>, "sxd" >>, << <<"a", "p", "p", "l", "i", "c", "a", "t", "i",
    "o", "n", "/", "v", "n", "d", ".", "s", "u", "n", ".", "x", "m", "l",
    ".", "d", "r", "a", "w", ".", "t", "e", "m", "p", "l", "a", "t", "e">>,
    "std" >>, << <<"a", "p", "p", "l", "i", "c", "a", "t", "i", "o", "n",
    "/", "v", "n", "d", ".", "s", "u", "n", ".", "x", "m", "l", ".", "i",
    "m", "p", "r", "e", "s", "s">>, "sxi" >>, << <<"a", "p", "p", "l", "i",
    "c", "a", "t", "i", "o", "n", "/", "v", "n", "d", ".", "s", "u", "n",
    ".", "x", "m", "l", ".", "i", "m", "p", "r", "e", "s", "s", ".", "t",
    "e", "m", "p", "l", "a", "t", "e">>, "sti" >>, << <<"a", "p", "p", "l",
    "i", "c", "a", "t", "i", "o", "n", "/", "v", "n", "d", ".", "s", "u",
    "n", ".", "x", "m", "l", ".", "m", "a", "t", "h">>, "sxm" >>, << <<"a",
    "p", "p", "l", "i", "c", "a", "t", "i", "o", "n", "/", "v", "n", "d",
    ".", "s", "u", "n", ".", "x", "m", "l", ".", "w", "r", "i", "t", "e",
    "r">>, "sxw" >>, << <<"a", "p", "p", "l", "i", "c", "a", "t", "i", "o",
    "n", "/", "v", "n", "d", ".", "s", "u", "n", ".", "x", "m", "l", ".",
    "w", "r", "i", "t", "e", "r", ".", "g", "l", "o", "b", "a", "l">>, "sxg"
    >>, << <<"a", "p", "p", "l", "i", "c", "a", "t", "i", "o", "n", "/",
    "v", "n", "d", ".", "s", "u", "n", ".", "x", "m", "l", ".", "w", "r",
    "i", "t", "e", "r", ".", "t", "e", "m", "p", "l", "a", "t", "e">>, "stw"
    >>, << <<"a", "p", "p", "l", "i", "c", "a", "t", "i", "o", "n", "/",
    "v", "n", "d", ".", "s", "u", "s", "-", "c", "a", "l", "e", "n", "d",
    "a", "r">>, "sus" >>, << <<"a", "p", "p", "l", "i", "c", "a", "t", "i",
    "o", "n", "/", "v", "n", "d", ".", "s", "y", "b", "y", "l", ".", "m",
    "o", "l", "2">>, "ml2" >>, << <<"a", "p", "p", "l", "i", "c", "a", "t",
    "i", "o", "n", "/", "v", "n", "d", ".", "s", "y", "c", "l", "e", "+",
    "x", "m", "l">>, "scl" >>, << <<"a", "p", "p", "l", "i", "c", "a", "t",
    "i", "o", "n", "/", "v", "n", "d", ".", "s", "y", "f", "t", "+", "j",
    "s", "o", "n">>, "syft.json" >>, << <<"a", "p", "p", "l", "i", "c", "a",
    "t", "i", "o", "n", "/", "v", "n", "d", ".", "s", "y", "m", "b", "i",
    "a", "n", ".", "i", "n", "s", "t", "a", "l", "l">>, "sis" >>, << <<"a",
    "p", "p", "l", "i", "c", "a", "t", "i", "o", "n", "/", "v", "n", "d",
    ".", "s", "y", "n", "c", "m", "l", "+", "x", "m", "l">>, "xsm" >>, <<
    <<"a", "p", "p", "l", "i", "c", "a", "t", "i", "o", "n", "/", "v", "n",
    "d", ".", "s", "y", "n", "c", "m", "l", ".", "d", "m", "+", "w", "b",
    "x", "m", "l">>, "bdm" >>, << <<"a", "p", "p", "l", "i", "c", "a", "t",
    "i", "o", "n", "/", "v", "n", "d", ".", "s", "y", "n", "c", "m", "l",
    ".", "d", "m", "+", "x", "m", "l">>, "xdm" >>, << <<"a", "p", "p", "l",
    "i", "c", "a", "t", "i", "o", "n", "/", "v", "n", "d", ".", "s", "y",
    "n", "c", "m", "l", ".", "d", "m", "d", "d", "f", "+", "x", "m", "l">>,
    "ddf" >>, << <<"a", "p", "p", "l", "i", "c", "a", "t", "i", "o", "n",
    "/", "v", "n", "d", ".", "t", "a", "o", ".", "i", "n", "t", "e", "n",
    "t", "-", "m", "o", "d", "u", "l", "e", "-", "a", "r", "c", "h", "i",
    "v", "e">>, "tao" >>, << <<"a", "p", "p", "l", "i", "c", "a", "t", "i",
    "o", "n", "/", "v", "n", "d", ".", "t", "c", "p", "d", "u", "m", "p",
    ".", "p", "c", "a", "p">>, "pcap" >>, << <<"a", "p", "p", "l", "i", "c",
    "a", "t", "i", "o", "n", "/", "v", "n", "d", ".", "t", "h", "e", "q",
    "v", "d">>, "qvd" >>, << <<"a", "p", "p", "l", "i", "c", "a", "t", "i",
    "o", "n", "/", "v", "n", "d", ".", "t", "h", "i", "n", "k", "-", "c",
    "e", "l", "l", ".", "p", "p", "t", "t", "c", "+", "j", "s", "o", "n">>,
    "ppttc" >>, << <<"a", "p", "p", "l", "i", "c", "a", "t", "i", "o", "n",
    "/", "v", "n", "d", ".", "t", "m", "l">>, "vfr" >>, << <<"a", "p", "p",
    "l", "i", "c", "a", "t", "i", "o", "n", "/", "v", "n", "d", ".", "t",
    "m", "o", "b", "i", "l", "e", "-", "l", "i", "v", "e", "t", "v">>, "tmo"
    >>, << <<"a", "p", "p", "l", "i", "c", "a", "t", "i", "o", "n", "/",
    "v", "n", "d", ".", "t", "r", "i", "d", ".", "t", "p", "t">>, "tpt" >>,
    << <<"a", "p", "p", "l", "i", "c", "a", "t", "i", "o", "n", "/", "v",
    "n", "d", ".", "t", "r", "i", "s", "c", "a", "p", "e", ".", "m", "x",
    "s">>, "mxs" >>, << <<"a", "p", "p", "l", "i", "c", "a", "t", "i", "o",
    "n", "/", "v", "n", "d", ".", "t", "r", "u", "e", "a", "p", "p">>, "tra"
    >>, << <<"a", "p", "p", "l", "i", "c", "a", "t", "i", "o", "n", "/",
    "v", "n", "d", ".", "u", "f", "d", "l">>, "ufdl" >>, << <<"a", "p", "p",
    "l", "i", "c", "a", "t", "i", "o", "n", "/", "v", "n", "d", ".", "u",
    "i", "q", ".", "t", "h", "e", "m", "e">>, "utz" >>, << <<"a", "p", "p",
    "l", "i", "c", "a", "t", "i", "o", "n", "/", "v", "n", "d", ".", "u",
    "m", "a", "j", "i", "n">>, "umj" >>, << <<"a", "p", "p", "l", "i", "c",
    "a", "t", "i", "o", "n", "/", "v", "n", "d", ".", "u", "n", "i", "t",
    "y">>, "unityweb" >>, << <<"a", "p", "p", "l", "i", "c", "a", "t", "i",
    "o", "n", "/", "v", "n", "d", ".", "u", "o", "m", "l", "+", "x", "m",
    "l">>, "uoml" >>, << <<"a", "p", "p", "l", "i", "c", "a", "t", "i", "o",
    "n", "/", "v", "n", "d", ".", "u", "r", "i", "-", "m", "a", "p">>,
    "urim" >>, << <<"a", "p", "p", "l", "i", "c", "a", "t", "i", "o", "n",
    "/", "v", "n", "d", ".", "v", "a", "l", "v", "e", ".", "s", "o", "u",
    "r", "c", "e", ".", "m", "a", "t", "e", "r", "i", "a", "l">>, "vmt" >>,
    << <<"a", "p", "p", "l", "i", "c", "a", "t", "i", "o", "n", "/", "v",
    "n", "d", ".", "v", "c", "x">>, "vcx" >>, << <<"a", "p", "p", "l", "i",
    "c", "a", "t", "i", "o", "n", "/", "v", "n", "d", ".", "v", "d", "-",
    "s", "t", "u", "d", "y">>, "mxi" >>, << <<"a", "p", "p", "l", "i", "c",
    "a", "t", "i", "o", "n", "/", "v", "n", "d", ".", "v", "e", "c", "t",
    "o", "r", "w", "o", "r", "k", "s">>, "vwx" >>, << <<"a", "p", "p", "l",
    "i", "c", "a", "t", "i", "o", "n", "/", "v", "n", "d", ".", "v", "e",
    "r", "i", "t", "o", "n", "e", ".", "a", "i", "o", "n", "+", "j", "s",
    "o", "n">>, "aion" >>, << <<"a", "p", "p", "l", "i", "c", "a", "t", "i",
    "o", "n", "/", "v", "n", "d", ".", "v", "e", "r", "y", "a", "n", "t",
    ".", "t", "h", "i", "n">>, "istc" >>, << <<"a", "p", "p", "l", "i", "c",
    "a", "t", "i", "o", "n", "/", "v", "n", "d", ".", "v", "e", "s", ".",
    "e", "n", "c", "r", "y", "p", "t", "e", "d">>, "VES" >>, << <<"a", "p",
    "p", "l", "i", "c", "a", "t", "i", "o", "n", "/", "v", "n", "d", ".",
    "v", "i", "d", "s", "o", "f", "t", ".", "v", "i", "d", "c", "o", "n",
    "f", "e", "r", "e", "n", "c", "e">>, "vsc" >>, << <<"a", "p", "p", "l",
    "i", "c", "a", "t", "i", "o", "n", "/", "v", "n", "d", ".", "v", "i",
    "s", "i", "o">>, "vsd" >>, << <<"a", "p", "p", "l", "i", "c", "a", "t",
    "i", "o", "n", "/", "v", "n", "d", ".", "v", "i", "s", "i", "o", "n",
    "a", "r", "y">>, "vis" >>, << <<"a", "p", "p", "l", "i", "c", "a", "t",
    "i", "o", "n", "/", "v", "n", "d", ".", "v", "s", "f">>, "vsf" >>, <<
    <<"a", "p", "p", "l", "i", "c", "a", "t", "i", "o", "n", "/", "v", "n",
    "d", ".", "w", "a", "p", ".", "s", "i", "c">>, "sic" >>, << <<"a", "p",
    "p", "l", "i", "c", "a", "t", "i", "o", "n", "/", "v", "n", "d", ".",
    "w", "a", "p", ".", "s", "l", "c">>, "slc" >>, << <<"a", "p", "p", "l",
    "i", "c", "a", "t", "i", "o", "n", "/", "v", "n", "d", ".", "w", "a",
    "p", ".", "w", "b", "x", "m", "l">>, "wbxml" >>, << <<"a", "p", "p",
    "l", "i", "c", "a", "t", "i", "o", "n", "/", "v", "n", "d", ".", "w",
    "a", "p", ".", "w", "m", "l", "c">>, "wmlc" >>, << <<"a", "p", "p", "l",
    "i", "c", "a", "t", "i", "o", "n", "/", "v", "n", "d", ".", "w", "a",
    "p", ".", "w", "m", "l", "s", "c", "r", "i", "p", "t", "c">>, "wmlsc"
    >>, << <<"a", "p", "p", "l", "i", "c", "a", "t", "i", "o", "n", "/",
    "v", "n", "d", ".", "w", "a", "s", "m", "f", "l", "o", "w", ".", "w",
    "a", "f", "l">>, "wafl" >>, << <<"a", "p", "p", "l", "i", "c", "a", "t",
    "i", "o", "n", "/", "v", "n", "d", ".", "w", "e", "b", "t", "u", "r",
    "b", "o">>, "wtb" >>, << <<"a", "p", "p", "l", "i", "c", "a", "t", "i",
    "o", "n", "/", "v", "n", "d", ".", "w", "f", "a", ".", "p", "2", "p">>,
    "p2p" >>, << <<"a", "p", "p", "l", "i", "c", "a", "t", "i", "o", "n",
    "/", "v", "n", "d", ".", "w", "f", "a", ".", "w", "s", "c">>, "wsc" >>,
    << <<"a", "p", "p", "l", "i", "c", "a", "t", "i", "o", "n", "/", "v",
    "n", "d", ".", "w", "m", "c">>, "wmc" >>, << <<"a", "p", "p", "l", "i",
    "c", "a", "t", "i", "o", "n", "/", "v", "n", "d", ".", "w", "o", "l",
    "f", "r", "a", "m", ".", "m", "a", "t", "h", "e", "m", "a", "t", "i",
    "c", "a">>, "nb" >>, << <<"a", "p", "p", "l", "i", "c", "a", "t", "i",
    "o", "n", "/", "v", "n", "d", ".", "w", "o", "l", "f", "r", "a", "m",
    ".", "m", "a", "t", "h", "e", "m", "a", "t", "i", "c", "a", ".", "p",
    "a", "c", "k", "a", "g", "e">>, "m" >>, << <<"a", "p", "p", "l", "i",
    "c", "a", "t", "i", "o", "n", "/", "v", "n", "d", ".", "w", "o", "l",
    "f", "r", "a", "m", ".", "p", "l", "a", "y", "e", "r">>, "nbp" >>, <<
    <<"a", "p", "p", "l", "i", "c", "a", "t", "i", "o", "n", "/", "v", "n",
    "d", ".", "w", "o", "r", "d", "p", "e", "r", "f", "e", "c", "t">>, "wpd"
    >>, << <<"a", "p", "p", "l", "i", "c", "a", "t", "i", "o", "n", "/",
    "v", "n", "d", ".", "w", "q", "d">>, "wqd" >>, << <<"a", "p", "p", "l",
    "i", "c", "a", "t", "i", "o", "n", "/", "v", "n", "d", ".", "w", "t",
    ".", "s", "t", "f">>, "stf" >>, << <<"a", "p", "p", "l", "i", "c", "a",
    "t", "i", "o", "n", "/", "v", "n", "d", ".", "w", "v", ".", "c", "s",
    "p", "+", "w", "b", "x", "m", "l">>, "wv" >>, << <<"a", "p", "p", "l",
    "i", "c", "a", "t", "i", "o", "n", "/", "v", "n", "d", ".", "x", "a",
    "r", "a">>, "xar" >>, << <<"a", "p", "p", "l", "i", "c", "a", "t", "i",
    "o", "n", "/", "v", "n", "d", ".", "x", "f", "d", "l">>, "xfdl" >>, <<
    <<"a", "p", "p", "l", "i", "c", "a", "t", "i", "o", "n", "/", "v", "n",
    "d", ".", "x", "m", "p", "i", "e", ".", "c", "p", "k", "g">>, "cpkg" >>,
    << <<"a", "p", "p", "l", "i", "c", "a", "t", "i", "o", "n", "/", "v",
    "n", "d", ".", "x", "m", "p", "i", "e", ".", "d", "p", "k", "g">>,
    "dpkg" >>, << <<"a", "p", "p", "l", "i", "c", "a", "t", "i", "o", "n",
    "/", "v", "n", "d", ".", "x", "m", "p", "i", "e", ".", "p", "p", "k",
    "g">>, "ppkg" >>, << <<"a", "p", "p", "l", "i", "c", "a", "t", "i", "o",
    "n", "/", "v", "n", "d", ".", "x", "m", "p", "i", "e", ".", "x", "l",
    "i", "m">>, "xlim" >>, << <<"a", "p", "p", "l", "i", "c", "a", "t", "i",
    "o", "n", "/", "v", "n", "d", ".", "y", "a", "m", "a", "h", "a", ".",
    "h", "v", "-", "d", "i", "c">>, "hvd" >>, << <<"a", "p", "p", "l", "i",
    "c", "a", "t", "i", "o", "n", "/", "v", "n", "d", ".", "y", "a", "m",
    "a", "h", "a", ".", "h", "v", "-", "s", "c", "r", "i", "p", "t">>, "hvs"
    >>, << <<"a", "p", "p", "l", "i", "c", "a", "t", "i", "o", "n", "/",
    "v", "n", "d", ".", "y", "a", "m", "a", "h", "a", ".", "h", "v", "-",
    "v", "o", "i", "c", "e">>, "hvp" >>, << <<"a", "p", "p", "l", "i", "c",
    "a", "t", "i", "o", "n", "/", "v", "n", "d", ".", "y", "a", "m", "a",
    "h", "a", ".", "o", "p", "e", "n", "s", "c", "o", "r", "e", "f", "o",
    "r", "m", "a", "t">>, "osf" >>, << <<"a", "p", "p", "l", "i", "c", "a",
    "t", "i", "o", "n", "/", "v", "n", "d", ".", "y", "a", "m", "a", "h",
    "a", ".", "s", "m", "a", "f", "-", "a", "u", "d", "i", "o">>, "saf" >>,
    << <<"a", "p", "p", "l", "i", "c", "a", "t", "i", "o", "n", "/", "v",
    "n", "d", ".", "y", "a", "m", "a", "h", "a", ".", "s", "m", "a", "f",
    "-", "p", "h", "r", "a", "s", "e">>, "spf" >>, << <<"a", "p", "p", "l",
    "i", "c", "a", "t", "i", "o", "n", "/", "v", "n", "d", ".", "y", "a",
    "o", "w", "e", "m", "e">>, "yme" >>, << <<"a", "p", "p", "l", "i", "c",
    "a", "t", "i", "o", "n", "/", "v", "n", "d", ".", "y", "e", "l", "l",
    "o", "w", "r", "i", "v", "e", "r", "-", "c", "u", "s", "t", "o", "m",
    "-", "m", "e", "n", "u">>, "cmp" >>, << <<"a", "p", "p", "l", "i", "c",
    "a", "t", "i", "o", "n", "/", "v", "n", "d", ".", "z", "u", "l">>, "zir"
    >>, << <<"a", "p", "p", "l", "i", "c", "a", "t", "i", "o", "n", "/",
    "v", "n", "d", ".", "z", "z", "a", "z", "z", ".", "d", "e", "c", "k",
    "+", "x", "m", "l">>, "zaz" >>, << <<"a", "p", "p", "l", "i", "c", "a",
    "t", "i", "o", "n", "/", "v", "o", "i", "c", "e", "x", "m", "l", "+",
    "x", "m", "l">>, "vxml" >>, << <<"a", "p", "p", "l", "i", "c", "a", "t",
    "i", "o", "n", "/", "v", "o", "u", "c", "h", "e", "r", "-", "c", "m",
    "s", "+", "j", "s", "o", "n">>, "vcj" >>, << <<"a", "p", "p", "l", "i",
    "c", "a", "t", "i", "o", "n", "/", "w", "a", "s", "m">>, "wasm" >>, <<
    <<"a", "p", "p", "l", "i", "c", "a", "t", "i", "o", "n", "/", "w", "a",
    "t", "c", "h", "e", "r", "i", "n", "f", "o", "+", "x", "m", "l">>, "wif"
    >>, << <<"a", "p", "p", "l", "i", "c", "a", "t", "i", "o", "n", "/",
    "w", "i", "d", "g", "e", "t">>, "wgt" >>, << <<"a", "p", "p", "l", "i",
    "c", "a", "t", "i", "o", "n", "/", "w", "s", "d", "l", "+", "x", "m",
    "l">>, "wsdl" >>, << <<"a", "p", "p", "l", "i", "c", "a", "t", "i", "o",
    "n", "/", "w", "s", "p", "o", "l", "i", "c", "y", "+", "x", "m", "l">>,
    "wspolicy" >>, << <<"a", "p", "p", "l", "i", "c", "a", "t", "i", "o",
    "n", "/", "x", "-", "1", "2", "3">>, "wk" >>, << <<"a", "p", "p", "l",
    "i", "c", "a", "t", "i", "o", "n", "/", "x", "-", "7", "z", "-", "c",
    "o", "m", "p", "r", "e", "s", "s", "e", "d">>, "7z" >>, << <<"a", "p",
    "p", "l", "i", "c", "a", "t", "i", "o", "n", "/", "x", "-", "a", "b",
    "i", "w", "o", "r", "d">>, "abw" >>, << <<"a", "p", "p", "l", "i", "c",
    "a", "t", "i", "o", "n", "/", "x", "-", "a", "p", "p", "l", "e", "-",
    "d", "i", "s", "k", "i", "m", "a", "g", "e">>, "dmg" >>, << <<"a", "p",
    "p", "l", "i", "c", "a", "t", "i", "o", "n", "/", "x", "-", "b", "c",
    "p", "i", "o">>, "bcpio" >>, << <<"a", "p", "p", "l", "i", "c", "a",
    "t", "i", "o", "n", "/", "x", "-", "b", "i", "t", "t", "o", "r", "r",
    "e", "n", "t">>, "torrent" >>, << <<"a", "p", "p", "l", "i", "c", "a",
    "t", "i", "o", "n", "/", "x", "-", "c", "d", "f">>, "cdf" >>, << <<"a",
    "p", "p", "l", "i", "c", "a", "t", "i", "o", "n", "/", "x", "-", "c",
    "d", "l", "i", "n", "k">>, "vcd" >>, << <<"a", "p", "p", "l", "i", "c",
    "a", "t", "i", "o", "n", "/", "x", "-", "c", "o", "m", "s", "o", "l">>,
    "mph" >>, << <<"a", "p", "p", "l", "i", "c", "a", "t", "i", "o", "n",
    "/", "x", "-", "c", "p", "i", "o">>, "cpio" >>, << <<"a", "p", "p", "l",
    "i", "c", "a", "t", "i", "o", "n", "/", "x", "-", "c", "s", "h">>, "csh"
    >>, << <<"a", "p", "p", "l", "i", "c", "a", "t", "i", "o", "n", "/",
    "x", "-", "d", "i", "r", "e", "c", "t", "o", "r">>, "dcr" >>, << <<"a",
    "p", "p", "l", "i", "c", "a", "t", "i", "o", "n", "/", "x", "-", "d",
    "o", "o", "m">>, "wad" >>, << <<"a", "p", "p", "l", "i", "c", "a", "t",
    "i", "o", "n", "/", "x", "-", "d", "v", "i">>, "dvi" >>, << <<"a", "p",
    "p", "l", "i", "c", "a", "t", "i", "o", "n", "/", "x", "-", "f", "o",
    "n", "t">>, "pfa" >>, << <<"a", "p", "p", "l", "i", "c", "a", "t", "i",
    "o", "n", "/", "x", "-", "f", "o", "n", "t", "-", "p", "c", "f">>, "pcf"
    >>, << <<"a", "p", "p", "l", "i", "c", "a", "t", "i", "o", "n", "/",
    "x", "-", "f", "r", "e", "e", "m", "i", "n", "d">>, "mm" >>, << <<"a",
    "p", "p", "l", "i", "c", "a", "t", "i", "o", "n", "/", "x", "-", "g",
    "a", "n", "t", "t", "p", "r", "o", "j", "e", "c", "t">>, "gan" >>, <<
    <<"a", "p", "p", "l", "i", "c", "a", "t", "i", "o", "n", "/", "x", "-",
    "g", "n", "u", "m", "e", "r", "i", "c">>, "gnumeric" >>, << <<"a", "p",
    "p", "l", "i", "c", "a", "t", "i", "o", "n", "/", "x", "-", "g", "o",
    "-", "s", "g", "f">>, "sgf" >>, << <<"a", "p", "p", "l", "i", "c", "a",
    "t", "i", "o", "n", "/", "x", "-", "g", "r", "a", "p", "h", "i", "n",
    "g", "-", "c", "a", "l", "c", "u", "l", "a", "t", "o", "r">>, "gcf" >>,
    << <<"a", "p", "p", "l", "i", "c", "a", "t", "i", "o", "n", "/", "x",
    "-", "g", "t", "a", "r">>, "gtar" >>, << <<"a", "p", "p", "l", "i", "c",
    "a", "t", "i", "o", "n", "/", "x", "-", "g", "t", "a", "r", "-", "c",
    "o", "m", "p", "r", "e", "s", "s", "e", "d">>, "tgz" >>, << <<"a", "p",
    "p", "l", "i", "c", "a", "t", "i", "o", "n", "/", "x", "-", "h", "d",
    "f">>, "hdf" >>, << <<"a", "p", "p", "l", "i", "c", "a", "t", "i", "o",
    "n", "/", "x", "-", "h", "d", "f", "5">>, "h5" >>, << <<"a", "p", "p",
    "l", "i", "c", "a", "t", "i", "o", "n", "/", "x", "-", "h", "w", "p">>,
    "hwp" >>, << <<"a", "p", "p", "l", "i", "c", "a", "t", "i", "o", "n",
    "/", "x", "-", "i", "c", "a">>, "ica" >>, << <<"a", "p", "p", "l", "i",
    "c", "a", "t", "i", "o", "n", "/", "x", "-", "i", "n", "f", "o">>,
    "info" >>, << <<"a", "p", "p", "l", "i", "c", "a", "t", "i", "o", "n",
    "/", "x", "-", "i", "n", "t", "e", "r", "n", "e", "t", "-", "s", "i",
    "g", "n", "u", "p">>, "ins" >>, << <<"a", "p", "p", "l", "i", "c", "a",
    "t", "i", "o", "n", "/", "x", "-", "i", "p", "h", "o", "n", "e">>, "iii"
    >>, << <<"a", "p", "p", "l", "i", "c", "a", "t", "i", "o", "n", "/",
    "x", "-", "i", "s", "o", "9", "6", "6", "0", "-", "i", "m", "a", "g",
    "e">>, "iso" >>, << <<"a", "p", "p", "l", "i", "c", "a", "t", "i", "o",
    "n", "/", "x", "-", "j", "a", "v", "a", "-", "j", "n", "l", "p", "-",
    "f", "i", "l", "e">>, "jnlp" >>, << <<"a", "p", "p", "l", "i", "c", "a",
    "t", "i", "o", "n", "/", "x", "-", "j", "m", "o", "l">>, "jmz" >>, <<
    <<"a", "p", "p", "l", "i", "c", "a", "t", "i", "o", "n", "/", "x", "-",
    "k", "i", "l", "l", "u", "s", "t", "r", "a", "t", "o", "r">>, "kil" >>,
    << <<"a", "p", "p", "l", "i", "c", "a", "t", "i", "o", "n", "/", "x",
    "-", "l", "a", "t", "e", "x">>, "latex" >>, << <<"a", "p", "p", "l",
    "i", "c", "a", "t", "i", "o", "n", "/", "x", "-", "l", "h", "a">>, "lha"
    >>, << <<"a", "p", "p", "l", "i", "c", "a", "t", "i", "o", "n", "/",
    "x", "-", "l", "y", "x">>, "lyx" >>, << <<"a", "p", "p", "l", "i", "c",
    "a", "t", "i", "o", "n", "/", "x", "-", "l", "z", "h">>, "lzh" >>, <<
    <<"a", "p", "p", "l", "i", "c", "a", "t", "i", "o", "n", "/", "x", "-",
    "l", "z", "x">>, "lzx" >>, << <<"a", "p", "p", "l", "i", "c", "a", "t",
    "i", "o", "n", "/", "x", "-", "m", "a", "k", "e", "r">>, "frm" >>, <<
    <<"a", "p", "p", "l", "i", "c", "a", "t", "i", "o", "n", "/", "x", "-",
    "m", "i", "f">>, "mif" >>, << <<"a", "p", "p", "l", "i", "c", "a", "t",
    "i", "o", "n", "/", "x", "-", "m", "s", "-", "w", "m", "d">>, "wmd" >>,
    << <<"a", "p", "p", "l", "i", "c", "a", "t", "i", "o", "n", "/", "x",
    "-", "m", "s", "-", "w", "m", "z">>, "wmz" >>, << <<"a", "p", "p", "l",
    "i", "c", "a", "t", "i", "o", "n", "/", "x", "-", "m", "s", "d", "o",
    "s", "-", "p", "r", "o", "g", "r", "a", "m">>, "com" >>, << <<"a", "p",
    "p", "l", "i", "c", "a", "t", "i", "o", "n", "/", "x", "-", "m", "s",
    "i">>, "msi" >>, << <<"a", "p", "p", "l", "i", "c", "a", "t", "i", "o",
    "n", "/", "x", "-", "n", "e", "t", "c", "d", "f">>, "cdf" >>, << <<"a",
    "p", "p", "l", "i", "c", "a", "t", "i", "o", "n", "/", "x", "-", "n",
    "s", "-", "p", "r", "o", "x", "y", "-", "a", "u", "t", "o", "c", "o",
    "n", "f", "i", "g">>, "pac" >>, << <<"a", "p", "p", "l", "i", "c", "a",
    "t", "i", "o", "n", "/", "x", "-", "n", "w", "c">>, "nwc" >>, << <<"a",
    "p", "p", "l", "i", "c", "a", "t", "i", "o", "n", "/", "x", "-", "o",
    "b", "j", "e", "c", "t">>, "o" >>, << <<"a", "p", "p", "l", "i", "c",
    "a", "t", "i", "o", "n", "/", "x", "-", "o", "z", "-", "a", "p", "p",
    "l", "i", "c", "a", "t", "i", "o", "n">>, "oza" >>, << <<"a", "p", "p",
    "l", "i", "c", "a", "t", "i", "o", "n", "/", "x", "-", "p", "k", "c",
    "s", "1", "2">>, "p12" >>, << <<"a", "p", "p", "l", "i", "c", "a", "t",
    "i", "o", "n", "/", "x", "-", "p", "k", "c", "s", "7", "-", "c", "e",
    "r", "t", "r", "e", "q", "r", "e", "s", "p">>, "p7r" >>, << <<"a", "p",
    "p", "l", "i", "c", "a", "t", "i", "o", "n", "/", "x", "-", "p", "n",
    "-", "r", "e", "a", "l", "a", "u", "d", "i", "o">>, "ram" >>, << <<"a",
    "p", "p", "l", "i", "c", "a", "t", "i", "o", "n", "/", "x", "-", "p",
    "y", "t", "h", "o", "n", "-", "c", "o", "d", "e">>, "pyc" >>, << <<"a",
    "p", "p", "l", "i", "c", "a", "t", "i", "o", "n", "/", "x", "-", "q",
    "g", "i", "s">>, "qgs" >>, << <<"a", "p", "p", "l", "i", "c", "a", "t",
    "i", "o", "n", "/", "x", "-", "q", "u", "i", "c", "k", "t", "i", "m",
    "e", "p", "l", "a", "y", "e", "r">>, "qtl" >>, << <<"a", "p", "p", "l",
    "i", "c", "a", "t", "i", "o", "n", "/", "x", "-", "r", "d", "p">>, "rdp"
    >>, << <<"a", "p", "p", "l", "i", "c", "a", "t", "i", "o", "n", "/",
    "x", "-", "r", "e", "d", "h", "a", "t", "-", "p", "a", "c", "k", "a",
    "g", "e", "-", "m", "a", "n", "a", "g", "e", "r">>, "rpm" >>, << <<"a",
    "p", "p", "l", "i", "c", "a", "t", "i", "o", "n", "/", "x", "-", "r",
    "s", "s", "+", "x", "m", "l">>, "rss" >>, << <<"a", "p", "p", "l", "i",
    "c", "a", "t", "i", "o", "n", "/", "x", "-", "r", "u", "b", "y">>, "rb"
    >>, << <<"a", "p", "p", "l", "i", "c", "a", "t", "i", "o", "n", "/",
    "x", "-", "s", "c", "i", "l", "a", "b">>, "sci" >>, << <<"a", "p", "p",
    "l", "i", "c", "a", "t", "i", "o", "n", "/", "x", "-", "s", "c", "i",
    "l", "a", "b", "-", "x", "c", "o", "s">>, "xcos" >>, << <<"a", "p", "p",
    "l", "i", "c", "a", "t", "i", "o", "n", "/", "x", "-", "s", "h">>, "sh"
    >>, << <<"a", "p", "p", "l", "i", "c", "a", "t", "i", "o", "n", "/",
    "x", "-", "s", "h", "a", "r">>, "shar" >>, << <<"a", "p", "p", "l", "i",
    "c", "a", "t", "i", "o", "n", "/", "x", "-", "s", "h", "o", "c", "k",
    "w", "a", "v", "e", "-", "f", "l", "a", "s", "h">>, "swf" >>, << <<"a",
    "p", "p", "l", "i", "c", "a", "t", "i", "o", "n", "/", "x", "-", "s",
    "i", "l", "v", "e", "r", "l", "i", "g", "h", "t">>, "scr" >>, << <<"a",
    "p", "p", "l", "i", "c", "a", "t", "i", "o", "n", "/", "x", "-", "s",
    "t", "u", "f", "f", "i", "t">>, "sit" >>, << <<"a", "p", "p", "l", "i",
    "c", "a", "t", "i", "o", "n", "/", "x", "-", "s", "v", "4", "c", "p",
    "i", "o">>, "sv4cpio" >>, << <<"a", "p", "p", "l", "i", "c", "a", "t",
    "i", "o", "n", "/", "x", "-", "s", "v", "4", "c", "r", "c">>, "sv4crc"
    >>, << <<"a", "p", "p", "l", "i", "c", "a", "t", "i", "o", "n", "/",
    "x", "-", "t", "a", "r">>, "tar" >>, << <<"a", "p", "p", "l", "i", "c",
    "a", "t", "i", "o", "n", "/", "x", "-", "t", "c", "l">>, "tcl" >>, <<
    <<"a", "p", "p", "l", "i", "c", "a", "t", "i", "o", "n", "/", "x", "-",
    "t", "e", "x">>, "tex" >>, << <<"a", "p", "p", "l", "i", "c", "a", "t",
    "i", "o", "n", "/", "x", "-", "t", "e", "x", "-", "g", "f">>, "gf" >>,
    << <<"a", "p", "p", "l", "i", "c", "a", "t", "i", "o", "n", "/", "x",
    "-", "t", "e", "x", "-", "p", "k">>, "pk" >>, << <<"a", "p", "p", "l",
    "i", "c", "a", "t", "i", "o", "n", "/", "x", "-", "t", "e", "x", "i",
    "n", "f", "o">>, "texi" >>, << <<"a", "p", "p", "l", "i", "c", "a", "t",
    "i", "o", "n", "/", "x", "-", "t", "r", "a", "s", "h">>, "~" >>, <<
    <<"a", "p", "p", "l", "i", "c", "a", "t", "i", "o", "n", "/", "x", "-",
    "t", "r", "o", "f", "f">>, "roff" >>, << <<"a", "p", "p", "l", "i", "c",
    "a", "t", "i", "o", "n", "/", "x", "-", "t", "r", "o", "f", "f", "-",
    "m", "a", "n">>, "man" >>, << <<"a", "p", "p", "l", "i", "c", "a", "t",
    "i", "o", "n", "/", "x", "-", "t", "r", "o", "f", "f", "-", "m", "e">>,
    "me" >>, << <<"a", "p", "p", "l", "i", "c", "a", "t", "i", "o", "n",
    "/", "x", "-", "t", "r", "o", "f", "f", "-", "m", "s">>, "ms" >>, <<
    <<"a", "p", "p", "l", "i", "c", "a", "t", "i", "o", "n", "/", "x", "-",
    "u", "s", "t", "a", "r">>, "ustar" >>, << <<"a", "p", "p", "l", "i",
    "c", "a", "t", "i", "o", "n", "/", "x", "-", "w", "a", "i", "s", "-",
    "s", "o", "u", "r", "c", "e">>, "src" >>, << <<"a", "p", "p", "l", "i",
    "c", "a", "t", "i", "o", "n", "/", "x", "-", "w", "i", "n", "g", "z">>,
    "wz" >>, << <<"a", "p", "p", "l", "i", "c", "a", "t", "i", "o", "n",
    "/", "x", "-", "x", "5", "0", "9", "-", "c", "a", "-", "c", "e", "r",
    "t">>, "crt" >>, << <<"a", "p", "p", "l", "i", "c", "a", "t", "i", "o",
    "n", "/", "x", "-", "x", "f", "i", "g">>, "fig" >>, << <<"a", "p", "p",
    "l", "i", "c", "a", "t", "i", "o", "n", "/", "x", "-", "x", "p", "i",
    "n", "s", "t", "a", "l", "l">>, "xpi" >>, << <<"a", "p", "p", "l", "i",
    "c", "a", "t", "i", "o", "n", "/", "x", "-", "x", "z">>, "xz" >>, <<
    <<"a", "p", "p", "l", "i", "c", "a", "t", "i", "o", "n", "/", "x", "c",
    "a", "p", "-", "a", "t", "t", "+", "x", "m", "l">>, "xav" >>, << <<"a",
    "p", "p", "l", "i", "c", "a", "t", "i", "o", "n", "/", "x", "c", "a",
    "p", "-", "c", "a", "p", "s", "+", "x", "m", "l">>, "xca" >>, << <<"a",
    "p", "p", "l", "i", "c", "a", "t", "i", "o", "n", "/", "x", "c", "a",
    "p", "-", "d", "i", "f", "f", "+", "x", "m", "l">>, "xdf" >>, << <<"a",
    "p", "p", "l", "i", "c", "a", "t", "i", "o", "n", "/", "x", "c", "a",
    "p", "-", "e", "l", "+", "x", "m", "l">>, "xel" >>, << <<"a", "p", "p",
    "l", "i", "c", "a", "t", "i", "o", "n", "/", "x", "c", "a", "p", "-",
    "e", "r", "r", "o", "r", "+", "x", "m", "l">>, "xer" >>, << <<"a", "p",
    "p", "l", "i", "c", "a", "t", "i", "o", "n", "/", "x", "c", "a", "p",
    "-", "n", "s", "+", "x", "m", "l">>, "xns" >>, << <<"a", "p", "p", "l",
    "i", "c", "a", "t", "i", "o", "n", "/", "x", "f", "d", "f">>, "xfdf" >>,
    << <<"a", "p", "p", "l", "i", "c", "a", "t", "i", "o", "n", "/", "x",
    "h", "t", "m", "l", "+", "x", "m", "l">>, "xhtml" >>, << <<"a", "p",
    "p", "l", "i", "c", "a", "t", "i", "o", "n", "/", "x", "l", "i", "f",
    "f", "+", "x", "m", "l">>, "xlf" >>, << <<"a", "p", "p", "l", "i", "c",
    "a", "t", "i", "o", "n", "/", "x", "m", "l">>, "xsl" >>, << <<"a", "p",
    "p", "l", "i", "c", "a", "t", "i", "o", "n", "/", "x", "m", "l", "-",
    "d", "t", "d">>, "dtd" >>, << <<"a", "p", "p", "l", "i", "c", "a", "t",
    "i", "o", "n", "/", "x", "m", "l", "-", "e", "x", "t", "e", "r", "n",
    "a", "l", "-", "p", "a", "r", "s", "e", "d", "-", "e", "n", "t", "i",
    "t", "y">>, "ent" >>, << <<"a", "p", "p", "l", "i", "c", "a", "t", "i",
    "o", "n", "/", "x", "o", "p", "+", "x", "m", "l">>, "xop" >>, << <<"a",
    "p", "p", "l", "i", "c", "a", "t", "i", "o", "n", "/", "x", "s", "l",
    "t", "+", "x", "m", "l">>, "xsl" >>, << <<"a", "p", "p", "l", "i", "c",
    "a", "t", "i", "o", "n", "/", "x", "s", "p", "f", "+", "x", "m", "l">>,
    "xspf" >>, << <<"a", "p", "p", "l", "i", "c", "a", "t", "i", "o", "n",
    "/", "x", "v", "+", "x", "m", "l">>, "mxml" >>, << <<"a", "p", "p", "l",
    "i", "c", "a", "t", "i", "o", "n", "/", "y", "a", "n", "g">>, "yang" >>,
    << <<"a", "p", "p", "l", "i", "c", "a", "t", "i", "o", "n", "/", "y",
    "i", "n", "+", "x", "m", "l">>, "yin" >>, << <<"a", "p", "p", "l", "i",
    "c", "a", "t", "i", "o", "n", "/", "z", "i", "p">>, "zip" >>, << <<"a",
    "p", "p", "l", "i", "c", "a", "t", "i", "o", "n", "/", "z", "s", "t",
    "d">>, "zst" >>, << <<"a", "u", "d", "i", "o", "/", "3", "2", "k", "a",
    "d", "p", "c", "m">>, "726" >>, << <<"a", "u", "d", "i", "o", "/", "3",
    "g", "p", "p">>, "3gp" >>, << <<"a", "u", "d", "i", "o", "/", "3", "g",
    "p", "p", "2">>, "3g2" >>, << <<"a", "u", "d", "i", "o", "/", "a", "a",
    "c">>, "aac" >>, << <<"a", "u", "d", "i", "o", "/", "a", "c", "3">>,
    "ac3" >>, << <<"a", "u", "d", "i", "o", "/", "a", "n", "n", "o", "d",
    "e", "x">>, "axa" >>, << <<"a", "u", "d", "i", "o", "/", "a", "s",
    "c">>, "acn" >>, << <<"a", "u", "d", "i", "o", "/", "b", "a", "s", "i",
    "c">>, "au" >>, << <<"a", "u", "d", "i", "o", "/", "c", "s", "o", "u",
    "n", "d">>, "csd" >>, << <<"a", "u", "d", "i", "o", "/", "d", "l",
    "s">>, "dls" >>, << <<"a", "u", "d", "i", "o", "/", "f", "l", "a",
    "c">>, "flac" >>, << <<"a", "u", "d", "i", "o", "/", "m", "h", "a",
    "s">>, "mhas" >>, << <<"a", "u", "d", "i", "o", "/", "m", "o", "b", "i",
    "l", "e", "-", "x", "m", "f">>, "mxmf" >>, << <<"a", "u", "d", "i", "o",
    "/", "m", "p", "4">>, "m4a" >>, << <<"a", "u", "d", "i", "o", "/", "m",
    "p", "e", "g">>, "mp3" >>, << <<"a", "u", "d", "i", "o", "/", "m", "p",
    "e", "g", "u", "r", "l">>, "m3u" >>, << <<"a", "u", "d", "i", "o", "/",
    "o", "g", "g">>, "oga" >>, << <<"a", "u", "d", "i", "o", "/", "o", "p",
    "u", "s">>, "opus" >>, << <<"a", "u", "d", "i", "o", "/", "p", "r", "s",
    ".", "s", "i", "d">>, "sid" >>, << <<"a", "u", "d", "i", "o", "/", "s",
    "o", "f", "a">>, "sofa" >>, << <<"a", "u", "d", "i", "o", "/", "s", "p",
    "-", "m", "i", "d", "i">>, "mid" >>, << <<"a", "u", "d", "i", "o", "/",
    "u", "s", "a", "c">>, "loas" >>, << <<"a", "u", "d", "i", "o", "/", "v",
    "n", "d", ".", "a", "u", "d", "i", "o", "k", "o", "z">>, "koz" >>, <<
    <<"a", "u", "d", "i", "o", "/", "v", "n", "d", ".", "d", "e", "c", "e",
    ".", "a", "u", "d", "i", "o">>, "uva" >>, << <<"a", "u", "d", "i", "o",
    "/", "v", "n", "d", ".", "d", "i", "g", "i", "t", "a", "l", "-", "w",
    "i", "n", "d", "s">>, "eol" >>, << <<"a", "u", "d", "i", "o", "/", "v",
    "n", "d", ".", "d", "o", "l", "b", "y", ".", "m", "l", "p">>, "mlp" >>,
    << <<"a", "u", "d", "i", "o", "/", "v", "n", "d", ".", "d", "t", "s">>,
    "dts" >>, << <<"a", "u", "d", "i", "o", "/", "v", "n", "d", ".", "d",
    "t", "s", ".", "h", "d">>, "dtshd" >>, << <<"a", "u", "d", "i", "o",
    "/", "v", "n", "d", ".", "e", "v", "e", "r", "a", "d", ".", "p", "l",
    "j">>, "plj" >>, << <<"a", "u", "d", "i", "o", "/", "v", "n", "d", ".",
    "l", "u", "c", "e", "n", "t", ".", "v", "o", "i", "c", "e">>, "lvp" >>,
    << <<"a", "u", "d", "i", "o", "/", "v", "n", "d", ".", "m", "s", "-",
    "p", "l", "a", "y", "r", "e", "a", "d", "y", ".", "m", "e", "d", "i",
    "a", ".", "p", "y", "a">>, "pya" >>, << <<"a", "u", "d", "i", "o", "/",
    "v", "n", "d", ".", "n", "o", "r", "t", "e", "l", ".", "v", "b", "k">>,
    "vbk" >>, << <<"a", "u", "d", "i", "o", "/", "v", "n", "d", ".", "n",
    "u", "e", "r", "a", ".", "e", "c", "e", "l", "p", "4", "8", "0", "0">>,
    "ecelp4800" >>, << <<"a", "u", "d", "i", "o", "/", "v", "n", "d", ".",
    "n", "u", "e", "r", "a", ".", "e", "c", "e", "l", "p", "7", "4", "7",
    "0">>, "ecelp7470" >>, << <<"a", "u", "d", "i", "o", "/", "v", "n", "d",
    ".", "n", "u", "e", "r", "a", ".", "e", "c", "e", "l", "p", "9", "6",
    "0", "0">>, "ecelp9600" >>, << <<"a", "u", "d", "i", "o", "/", "v", "n",
    "d", ".", "p", "r", "e", "s", "o", "n", "u", "s", ".", "m", "u", "l",
    "t", "i", "t", "r", "a", "c", "k">>, "multitrack" >>, << <<"a", "u",
    "d", "i", "o", "/", "v", "n", "d", ".", "r", "i", "p">>, "rip" >>, <<
    <<"a", "u", "d", "i", "o", "/", "v", "n", "d", ".", "s", "e", "a", "l",
    "e", "d", "m", "e", "d", "i", "a", ".", "s", "o", "f", "t", "s", "e",
    "a", "l", ".", "m", "p", "e", "g">>, "smp3" >>, << <<"a", "u", "d", "i",
    "o", "/", "x", "-", "a", "i", "f", "f">>, "aif" >>, << <<"a", "u", "d",
    "i", "o", "/", "x", "-", "g", "s", "m">>, "gsm" >>, << <<"a", "u", "d",
    "i", "o", "/", "x", "-", "m", "s", "-", "w", "a", "x">>, "wax" >>, <<
    <<"a", "u", "d", "i", "o", "/", "x", "-", "m", "s", "-", "w", "m",
    "a">>, "wma" >>, << <<"a", "u", "d", "i", "o", "/", "x", "-", "p", "n",
    "-", "r", "e", "a", "l", "a", "u", "d", "i", "o">>, "ra" >>, << <<"a",
    "u", "d", "i", "o", "/", "x", "-", "s", "c", "p", "l", "s">>, "pls" >>,
    << <<"a", "u", "d", "i", "o", "/", "x", "-", "s", "d", "2">>, "sd2" >>,
    << <<"a", "u", "d", "i", "o", "/", "x", "-", "w", "a", "v">>, "wav" >>,
    << <<"c", "h", "e", "m", "i", "c", "a", "l", "/", "x", "-", "a", "l",
    "c", "h", "e", "m", "y">>, "alc" >>, << <<"c", "h", "e", "m", "i", "c",
    "a", "l", "/", "x", "-", "c", "a", "c", "h", "e">>, "cac" >>, << <<"c",
    "h", "e", "m", "i", "c", "a", "l", "/", "x", "-", "c", "a", "c", "h",
    "e", "-", "c", "s", "f">>, "csf" >>, << <<"c", "h", "e", "m", "i", "c",
    "a", "l", "/", "x", "-", "c", "a", "c", "t", "v", "s", "-", "b", "i",
    "n", "a", "r", "y">>, "cbin" >>, << <<"c", "h", "e", "m", "i", "c", "a",
    "l", "/", "x", "-", "c", "d", "x">>, "cdx" >>, << <<"c", "h", "e", "m",
    "i", "c", "a", "l", "/", "x", "-", "c", "h", "e", "m", "3", "d">>, "c3d"
    >>, << <<"c", "h", "e", "m", "i", "c", "a", "l", "/", "x", "-", "c",
    "h", "e", "m", "d", "r", "a", "w">>, "chm" >>, << <<"c", "h", "e", "m",
    "i", "c", "a", "l", "/", "x", "-", "c", "i", "f">>, "cif" >>, << <<"c",
    "h", "e", "m", "i", "c", "a", "l", "/", "x", "-", "c", "m", "d", "f">>,
    "cmdf" >>, << <<"c", "h", "e", "m", "i", "c", "a", "l", "/", "x", "-",
    "c", "m", "l">>, "cml" >>, << <<"c", "h", "e", "m", "i", "c", "a", "l",
    "/", "x", "-", "c", "o", "m", "p", "a", "s", "s">>, "cpa" >>, << <<"c",
    "h", "e", "m", "i", "c", "a", "l", "/", "x", "-", "c", "r", "o", "s",
    "s", "f", "i", "r", "e">>, "bsd" >>, << <<"c", "h", "e", "m", "i", "c",
    "a", "l", "/", "x", "-", "c", "s", "m", "l">>, "csml" >>, << <<"c", "h",
    "e", "m", "i", "c", "a", "l", "/", "x", "-", "c", "t", "x">>, "ctx" >>,
    << <<"c", "h", "e", "m", "i", "c", "a", "l", "/", "x", "-", "c", "x",
    "f">>, "cxf" >>, << <<"c", "h", "e", "m", "i", "c", "a", "l", "/", "x",
    "-", "e", "m", "b", "l", "-", "d", "l", "-", "n", "u", "c", "l", "e",
    "o", "t", "i", "d", "e">>, "emb" >>, << <<"c", "h", "e", "m", "i", "c",
    "a", "l", "/", "x", "-", "g", "a", "l", "a", "c", "t", "i", "c", "-",
    "s", "p", "c">>, "spc" >>, << <<"c", "h", "e", "m", "i", "c", "a", "l",
    "/", "x", "-", "g", "a", "m", "e", "s", "s", "-", "i", "n", "p", "u",
    "t">>, "inp" >>, << <<"c", "h", "e", "m", "i", "c", "a", "l", "/", "x",
    "-", "g", "a", "u", "s", "s", "i", "a", "n", "-", "c", "h", "e", "c",
    "k", "p", "o", "i", "n", "t">>, "fch" >>, << <<"c", "h", "e", "m", "i",
    "c", "a", "l", "/", "x", "-", "g", "a", "u", "s", "s", "i", "a", "n",
    "-", "c", "u", "b", "e">>, "cub" >>, << <<"c", "h", "e", "m", "i", "c",
    "a", "l", "/", "x", "-", "g", "a", "u", "s", "s", "i", "a", "n", "-",
    "i", "n", "p", "u", "t">>, "gau" >>, << <<"c", "h", "e", "m", "i", "c",
    "a", "l", "/", "x", "-", "g", "a", "u", "s", "s", "i", "a", "n", "-",
    "l", "o", "g">>, "gal" >>, << <<"c", "h", "e", "m", "i", "c", "a", "l",
    "/", "x", "-", "g", "c", "g", "8", "-", "s", "e", "q", "u", "e", "n",
    "c", "e">>, "gcg" >>, << <<"c", "h", "e", "m", "i", "c", "a", "l", "/",
    "x", "-", "g", "e", "n", "b", "a", "n", "k">>, "gen" >>, << <<"c", "h",
    "e", "m", "i", "c", "a", "l", "/", "x", "-", "h", "i", "n">>, "hin" >>,
    << <<"c", "h", "e", "m", "i", "c", "a", "l", "/", "x", "-", "i", "s",
    "o", "s", "t", "a", "r">>, "istr" >>, << <<"c", "h", "e", "m", "i", "c",
    "a", "l", "/", "x", "-", "j", "c", "a", "m", "p", "-", "d", "x">>, "jdx"
    >>, << <<"c", "h", "e", "m", "i", "c", "a", "l", "/", "x", "-", "k",
    "i", "n", "e", "m", "a", "g", "e">>, "kin" >>, << <<"c", "h", "e", "m",
    "i", "c", "a", "l", "/", "x", "-", "m", "a", "c", "m", "o", "l", "e",
    "c", "u", "l", "e">>, "mcm" >>, << <<"c", "h", "e", "m", "i", "c", "a",
    "l", "/", "x", "-", "m", "a", "c", "r", "o", "m", "o", "d", "e", "l",
    "-", "i", "n", "p", "u", "t">>, "mmod" >>, << <<"c", "h", "e", "m", "i",
    "c", "a", "l", "/", "x", "-", "m", "d", "l", "-", "m", "o", "l", "f",
    "i", "l", "e">>, "mol" >>, << <<"c", "h", "e", "m", "i", "c", "a", "l",
    "/", "x", "-", "m", "d", "l", "-", "r", "d", "f", "i", "l", "e">>, "rd"
    >>, << <<"c", "h", "e", "m", "i", "c", "a", "l", "/", "x", "-", "m",
    "d", "l", "-", "r", "x", "n", "f", "i", "l", "e">>, "rxn" >>, << <<"c",
    "h", "e", "m", "i", "c", "a", "l", "/", "x", "-", "m", "d", "l", "-",
    "s", "d", "f", "i", "l", "e">>, "sd" >>, << <<"c", "h", "e", "m", "i",
    "c", "a", "l", "/", "x", "-", "m", "d", "l", "-", "t", "g", "f">>, "tgf"
    >>, << <<"c", "h", "e", "m", "i", "c", "a", "l", "/", "x", "-", "m",
    "m", "c", "i", "f">>, "mcif" >>, << <<"c", "h", "e", "m", "i", "c", "a",
    "l", "/", "x", "-", "m", "o", "p", "a", "c", "-", "g", "r", "a", "p",
    "h">>, "gpt" >>, << <<"c", "h", "e", "m", "i", "c", "a", "l", "/", "x",
    "-", "m", "o", "p", "a", "c", "-", "i", "n", "p", "u", "t">>, "mop" >>,
    << <<"c", "h", "e", "m", "i", "c", "a", "l", "/", "x", "-", "m", "o",
    "p", "a", "c", "-", "o", "u", "t">>, "moo" >>, << <<"c", "h", "e", "m",
    "i", "c", "a", "l", "/", "x", "-", "m", "o", "p", "a", "c", "-", "v",
    "i", "b">>, "mvb" >>, << <<"c", "h", "e", "m", "i", "c", "a", "l", "/",
    "x", "-", "n", "c", "b", "i", "-", "a", "s", "n", "1">>, "asn" >>, <<
    <<"c", "h", "e", "m", "i", "c", "a", "l", "/", "x", "-", "n", "c", "b",
    "i", "-", "a", "s", "n", "1", "-", "a", "s", "c", "i", "i">>, "prt" >>,
    << <<"c", "h", "e", "m", "i", "c", "a", "l", "/", "x", "-", "n", "c",
    "b", "i", "-", "a", "s", "n", "1", "-", "b", "i", "n", "a", "r", "y">>,
    "val" >>, << <<"c", "h", "e", "m", "i", "c", "a", "l", "/", "x", "-",
    "n", "c", "b", "i", "-", "a", "s", "n", "1", "-", "s", "p", "e", "c">>,
    "asn" >>, << <<"c", "h", "e", "m", "i", "c", "a", "l", "/", "x", "-",
    "p", "d", "b">>, "pdb" >>, << <<"c", "h", "e", "m", "i", "c", "a", "l",
    "/", "x", "-", "r", "o", "s", "d", "a", "l">>, "ros" >>, << <<"c", "h",
    "e", "m", "i", "c", "a", "l", "/", "x", "-", "s", "w", "i", "s", "s",
    "p", "r", "o", "t">>, "sw" >>, << <<"c", "h", "e", "m", "i", "c", "a",
    "l", "/", "x", "-", "v", "a", "m", "a", "s", "-", "i", "s", "o", "1",
    "4", "9", "7", "6">>, "vms" >>, << <<"c", "h", "e", "m", "i", "c", "a",
    "l", "/", "x", "-", "v", "m", "d">>, "vmd" >>, << <<"c", "h", "e", "m",
    "i", "c", "a", "l", "/", "x", "-", "x", "t", "e", "l">>, "xtel" >>, <<
    <<"c", "h", "e", "m", "i", "c", "a", "l", "/", "x", "-", "x", "y",
    "z">>, "xyz" >>, << <<"f", "o", "n", "t", "/", "c", "o", "l", "l", "e",
    "c", "t", "i", "o", "n">>, "ttc" >>, << <<"f", "o", "n", "t", "/", "o",
    "t", "f">>, "otf" >>, << <<"f", "o", "n", "t", "/", "t", "t", "f">>,
    "ttf" >>, << <<"f", "o", "n", "t", "/", "w", "o", "f", "f">>, "woff" >>,
    << <<"f", "o", "n", "t", "/", "w", "o", "f", "f", "2">>, "woff2" >>, <<
    <<"i", "m", "a", "g", "e", "/", "a", "c", "e", "s">>, "exr" >>, <<
    <<"i", "m", "a", "g", "e", "/", "a", "p", "n", "g">>, "apng" >>, <<
    <<"i", "m", "a", "g", "e", "/", "a", "v", "c", "i">>, "avci" >>, <<
    <<"i", "m", "a", "g", "e", "/", "a", "v", "c", "s">>, "avcs" >>, <<
    <<"i", "m", "a", "g", "e", "/", "a", "v", "i", "f">>, "avif" >>, <<
    <<"i", "m", "a", "g", "e", "/", "b", "m", "p">>, "bmp" >>, << <<"i",
    "m", "a", "g", "e", "/", "c", "g", "m">>, "cgm" >>, << <<"i", "m", "a",
    "g", "e", "/", "d", "i", "c", "o", "m", "-", "r", "l", "e">>, "drle" >>,
    << <<"i", "m", "a", "g", "e", "/", "d", "p", "x">>, "dpx" >>, << <<"i",
    "m", "a", "g", "e", "/", "e", "m", "f">>, "emf" >>, << <<"i", "m", "a",
    "g", "e", "/", "f", "i", "t", "s">>, "fits" >>, << <<"i", "m", "a", "g",
    "e", "/", "g", "i", "f">>, "gif" >>, << <<"i", "m", "a", "g", "e", "/",
    "h", "e", "i", "c">>, "heic" >>, << <<"i", "m", "a", "g", "e", "/", "h",
    "e", "i", "c", "-", "s", "e", "q", "u", "e", "n", "c", "e">>, "heics"
    >>, << <<"i", "m", "a", "g", "e", "/", "h", "e", "i", "f">>, "heif" >>,
    << <<"i", "m", "a", "g", "e", "/", "h", "e", "i", "f", "-", "s", "e",
    "q", "u", "e", "n", "c", "e">>, "heifs" >>, << <<"i", "m", "a", "g",
    "e", "/", "h", "e", "j", "2", "k">>, "hej2" >>, << <<"i", "m", "a", "g",
    "e", "/", "h", "s", "j", "2">>, "hsj2" >>, << <<"i", "m", "a", "g", "e",
    "/", "i", "e", "f">>, "ief" >>, << <<"i", "m", "a", "g", "e", "/", "j",
    "l", "s">>, "jls" >>, << <<"i", "m", "a", "g", "e", "/", "j", "p",
    "2">>, "jp2" >>, << <<"i", "m", "a", "g", "e", "/", "j", "p", "e",
    "g">>, "jpg" >>, << <<"i", "m", "a", "g", "e", "/", "j", "p", "h">>,
    "jph" >>, << <<"i", "m", "a", "g", "e", "/", "j", "p", "h", "c">>, "jhc"
    >>, << <<"i", "m", "a", "g", "e", "/", "j", "p", "m">>, "jpm" >>, <<
    <<"i", "m", "a", "g", "e", "/", "j", "p", "x">>, "jpx" >>, << <<"i",
    "m", "a", "g", "e", "/", "j", "x", "l">>, "jxl" >>, << <<"i", "m", "a",
    "g", "e", "/", "j", "x", "r">>, "jxr" >>, << <<"i", "m", "a", "g", "e",
    "/", "j", "x", "s">>, "jxs" >>, << <<"i", "m", "a", "g", "e", "/", "j",
    "x", "s", "c">>, "jxsc" >>, << <<"i", "m", "a", "g", "e", "/", "j", "x",
    "s", "i">>, "jxsi" >>, << <<"i", "m", "a", "g", "e", "/", "j", "x", "s",
    "s">>, "jxss" >>, << <<"i", "m", "a", "g", "e", "/", "k", "t", "x">>,
    "ktx" >>, << <<"i", "m", "a", "g", "e", "/", "k", "t", "x", "2">>,
    "ktx2" >>, << <<"i", "m", "a", "g", "e", "/", "p", "n", "g">>, "png" >>,
    << <<"i", "m", "a", "g", "e", "/", "p", "r", "s", ".", "b", "t", "i",
    "f">>, "btif" >>, << <<"i", "m", "a", "g", "e", "/", "p", "r", "s", ".",
    "p", "t", "i">>, "pti" >>, << <<"i", "m", "a", "g", "e", "/", "s", "v",
    "g", "+", "x", "m", "l">>, "svg" >>, << <<"i", "m", "a", "g", "e", "/",
    "t", "i", "f", "f">>, "tiff" >>, << <<"i", "m", "a", "g", "e", "/", "t",
    "i", "f", "f", "-", "f", "x">>, "tfx" >>, << <<"i", "m", "a", "g", "e",
    "/", "v", "n", "d", ".", "a", "d", "o", "b", "e", ".", "p", "h", "o",
    "t", "o", "s", "h", "o", "p">>, "psd" >>, << <<"i", "m", "a", "g", "e",
    "/", "v", "n", "d", ".", "a", "i", "r", "z", "i", "p", ".", "a", "c",
    "c", "e", "l", "e", "r", "a", "t", "o", "r", ".", "a", "z", "v">>, "azv"
    >>, << <<"i", "m", "a", "g", "e", "/", "v", "n", "d", ".", "d", "e",
    "c", "e", ".", "g", "r", "a", "p", "h", "i", "c">>, "uvi" >>, << <<"i",
    "m", "a", "g", "e", "/", "v", "n", "d", ".", "d", "j", "v", "u">>,
    "djvu" >>, << <<"i", "m", "a", "g", "e", "/", "v", "n", "d", ".", "d",
    "w", "g">>, "dwg" >>, << <<"i", "m", "a", "g", "e", "/", "v", "n", "d",
    ".", "d", "x", "f">>, "dxf" >>, << <<"i", "m", "a", "g", "e", "/", "v",
    "n", "d", ".", "f", "a", "s", "t", "b", "i", "d", "s", "h", "e", "e",
    "t">>, "fbs" >>, << <<"i", "m", "a", "g", "e", "/", "v", "n", "d", ".",
    "f", "p", "x">>, "fpx" >>, << <<"i", "m", "a", "g", "e", "/", "v", "n",
    "d", ".", "f", "s", "t">>, "fst" >>, << <<"i", "m", "a", "g", "e", "/",
    "v", "n", "d", ".", "f", "u", "j", "i", "x", "e", "r", "o", "x", ".",
    "e", "d", "m", "i", "c", "s", "-", "m", "m", "r">>, "mmr" >>, << <<"i",
    "m", "a", "g", "e", "/", "v", "n", "d", ".", "f", "u", "j", "i", "x",
    "e", "r", "o", "x", ".", "e", "d", "m", "i", "c", "s", "-", "r", "l",
    "c">>, "rlc" >>, << <<"i", "m", "a", "g", "e", "/", "v", "n", "d", ".",
    "g", "l", "o", "b", "a", "l", "g", "r", "a", "p", "h", "i", "c", "s",
    ".", "p", "g", "b">>, "PGB" >>, << <<"i", "m", "a", "g", "e", "/", "v",
    "n", "d", ".", "m", "i", "c", "r", "o", "s", "o", "f", "t", ".", "i",
    "c", "o", "n">>, "ico" >>, << <<"i", "m", "a", "g", "e", "/", "v", "n",
    "d", ".", "m", "s", "-", "m", "o", "d", "i">>, "mdi" >>, << <<"i", "m",
    "a", "g", "e", "/", "v", "n", "d", ".", "p", "c", "o", ".", "b", "1",
    "6">>, "b16" >>, << <<"i", "m", "a", "g", "e", "/", "v", "n", "d", ".",
    "r", "a", "d", "i", "a", "n", "c", "e">>, "hdr" >>, << <<"i", "m", "a",
    "g", "e", "/", "v", "n", "d", ".", "s", "e", "a", "l", "e", "d", ".",
    "p", "n", "g">>, "spng" >>, << <<"i", "m", "a", "g", "e", "/", "v", "n",
    "d", ".", "s", "e", "a", "l", "e", "d", "m", "e", "d", "i", "a", ".",
    "s", "o", "f", "t", "s", "e", "a", "l", ".", "g", "i", "f">>, "sgif" >>,
    << <<"i", "m", "a", "g", "e", "/", "v", "n", "d", ".", "s", "e", "a",
    "l", "e", "d", "m", "e", "d", "i", "a", ".", "s", "o", "f", "t", "s",
    "e", "a", "l", ".", "j", "p", "g">>, "sjpg" >>, << <<"i", "m", "a", "g",
    "e", "/", "v", "n", "d", ".", "t", "e", "n", "c", "e", "n", "t", ".",
    "t", "a", "p">>, "tap" >>, << <<"i", "m", "a", "g", "e", "/", "v", "n",
    "d", ".", "v", "a", "l", "v", "e", ".", "s", "o", "u", "r", "c", "e",
    ".", "t", "e", "x", "t", "u", "r", "e">>, "vtf" >>, << <<"i", "m", "a",
    "g", "e", "/", "v", "n", "d", ".", "w", "a", "p", ".", "w", "b", "m",
    "p">>, "wbmp" >>, << <<"i", "m", "a", "g", "e", "/", "v", "n", "d", ".",
    "x", "i", "f", "f">>, "xif" >>, << <<"i", "m", "a", "g", "e", "/", "v",
    "n", "d", ".", "z", "b", "r", "u", "s", "h", ".", "p", "c", "x">>, "pcx"
    >>, << <<"i", "m", "a", "g", "e", "/", "w", "e", "b", "p">>, "webp" >>,
    << <<"i", "m", "a", "g", "e", "/", "w", "m", "f">>, "wmf" >>, << <<"i",
    "m", "a", "g", "e", "/", "x", "-", "c", "a", "n", "o", "n", "-", "c",
    "r", "2">>, "cr2" >>, << <<"i", "m", "a", "g", "e", "/", "x", "-", "c",
    "a", "n", "o", "n", "-", "c", "r", "w">>, "crw" >>, << <<"i", "m", "a",
    "g", "e", "/", "x", "-", "c", "m", "u", "-", "r", "a", "s", "t", "e",
    "r">>, "ras" >>, << <<"i", "m", "a", "g", "e", "/", "x", "-", "c", "o",
    "r", "e", "l", "d", "r", "a", "w">>, "cdr" >>, << <<"i", "m", "a", "g",
    "e", "/", "x", "-", "c", "o", "r", "e", "l", "d", "r", "a", "w", "p",
    "a", "t", "t", "e", "r", "n">>, "pat" >>, << <<"i", "m", "a", "g", "e",
    "/", "x", "-", "c", "o", "r", "e", "l", "d", "r", "a", "w", "t", "e",
    "m", "p", "l", "a", "t", "e">>, "cdt" >>, << <<"i", "m", "a", "g", "e",
    "/", "x", "-", "c", "o", "r", "e", "l", "p", "h", "o", "t", "o", "p",
    "a", "i", "n", "t">>, "cpt" >>, << <<"i", "m", "a", "g", "e", "/", "x",
    "-", "e", "p", "s", "o", "n", "-", "e", "r", "f">>, "erf" >>, << <<"i",
    "m", "a", "g", "e", "/", "x", "-", "j", "g">>, "art" >>, << <<"i", "m",
    "a", "g", "e", "/", "x", "-", "j", "n", "g">>, "jng" >>, << <<"i", "m",
    "a", "g", "e", "/", "x", "-", "n", "i", "k", "o", "n", "-", "n", "e",
    "f">>, "nef" >>, << <<"i", "m", "a", "g", "e", "/", "x", "-", "o", "l",
    "y", "m", "p", "u", "s", "-", "o", "r", "f">>, "orf" >>, << <<"i", "m",
    "a", "g", "e", "/", "x", "-", "p", "o", "r", "t", "a", "b", "l", "e",
    "-", "a", "n", "y", "m", "a", "p">>, "pnm" >>, << <<"i", "m", "a", "g",
    "e", "/", "x", "-", "p", "o", "r", "t", "a", "b", "l", "e", "-", "b",
    "i", "t", "m", "a", "p">>, "pbm" >>, << <<"i", "m", "a", "g", "e", "/",
    "x", "-", "p", "o", "r", "t", "a", "b", "l", "e", "-", "g", "r", "a",
    "y", "m", "a", "p">>, "pgm" >>, << <<"i", "m", "a", "g", "e", "/", "x",
    "-", "p", "o", "r", "t", "a", "b", "l", "e", "-", "p", "i", "x", "m",
    "a", "p">>, "ppm" >>, << <<"i", "m", "a", "g", "e", "/", "x", "-", "r",
    "g", "b">>, "rgb" >>, << <<"i", "m", "a", "g", "e", "/", "x", "-", "x",
    "b", "i", "t", "m", "a", "p">>, "xbm" >>, << <<"i", "m", "a", "g", "e",
    "/", "x", "-", "x", "c", "f">>, "xcf" >>, << <<"i", "m", "a", "g", "e",
    "/", "x", "-", "x", "p", "i", "x", "m", "a", "p">>, "xpm" >>, << <<"i",
    "m", "a", "g", "e", "/", "x", "-", "x", "w", "i", "n", "d", "o", "w",
    "d", "u", "m", "p">>, "xwd" >>, << <<"m", "e", "s", "s", "a", "g", "e",
    "/", "g", "l", "o", "b", "a", "l">>, "u8msg" >>, << <<"m", "e", "s",
    "s", "a", "g", "e", "/", "g", "l", "o", "b", "a", "l", "-", "d", "e",
    "l", "i", "v", "e", "r", "y", "-", "s", "t", "a", "t", "u", "s">>,
    "u8dsn" >>, << <<"m", "e", "s", "s", "a", "g", "e", "/", "g", "l", "o",
    "b", "a", "l", "-", "d", "i", "s", "p", "o", "s", "i", "t", "i", "o",
    "n", "-", "n", "o", "t", "i", "f", "i", "c", "a", "t", "i", "o", "n">>,
    "u8mdn" >>, << <<"m", "e", "s", "s", "a", "g", "e", "/", "g", "l", "o",
    "b", "a", "l", "-", "h", "e", "a", "d", "e", "r", "s">>, "u8hdr" >>, <<
    <<"m", "e", "s", "s", "a", "g", "e", "/", "r", "f", "c", "8", "2",
    "2">>, "eml" >>, << <<"m", "o", "d", "e", "l", "/", "g", "l", "t", "f",
    "+", "j", "s", "o", "n">>, "gltf" >>, << <<"m", "o", "d", "e", "l", "/",
    "g", "l", "t", "f", "-", "b", "i", "n", "a", "r", "y">>, "glb" >>, <<
    <<"m", "o", "d", "e", "l", "/", "i", "g", "e", "s">>, "igs" >>, <<
    <<"m", "o", "d", "e", "l", "/", "m", "e", "s", "h">>, "msh" >>, <<
    <<"m", "o", "d", "e", "l", "/", "m", "t", "l">>, "mtl" >>, << <<"m",
    "o", "d", "e", "l", "/", "o", "b", "j">>, "obj" >>, << <<"m", "o", "d",
    "e", "l", "/", "p", "r", "c">>, "prc" >>, << <<"m", "o", "d", "e", "l",
    "/", "s", "t", "e", "p">>, "stp" >>, << <<"m", "o", "d", "e", "l", "/",
    "s", "t", "e", "p", "+", "x", "m", "l">>, "stpx" >>, << <<"m", "o", "d",
    "e", "l", "/", "s", "t", "e", "p", "+", "z", "i", "p">>, "stpz" >>, <<
    <<"m", "o", "d", "e", "l", "/", "s", "t", "e", "p", "-", "x", "m", "l",
    "+", "z", "i", "p">>, "stpxz" >>, << <<"m", "o", "d", "e", "l", "/",
    "s", "t", "l">>, "stl" >>, << <<"m", "o", "d", "e", "l", "/", "u", "3",
    "d">>, "u3d" >>, << <<"m", "o", "d", "e", "l", "/", "v", "n", "d", ".",
    "c", "l", "d">>, "cld" >>, << <<"m", "o", "d", "e", "l", "/", "v", "n",
    "d", ".", "c", "o", "l", "l", "a", "d", "a", "+", "x", "m", "l">>, "dae"
    >>, << <<"m", "o", "d", "e", "l", "/", "v", "n", "d", ".", "d", "w",
    "f">>, "dwf" >>, << <<"m", "o", "d", "e", "l", "/", "v", "n", "d", ".",
    "g", "d", "l">>, "gdl" >>, << <<"m", "o", "d", "e", "l", "/", "v", "n",
    "d", ".", "g", "t", "w">>, "gtw" >>, << <<"m", "o", "d", "e", "l", "/",
    "v", "n", "d", ".", "m", "o", "m", "l", "+", "x", "m", "l">>, "moml" >>,
    << <<"m", "o", "d", "e", "l", "/", "v", "n", "d", ".", "m", "t", "s">>,
    "mts" >>, << <<"m", "o", "d", "e", "l", "/", "v", "n", "d", ".", "o",
    "p", "e", "n", "g", "e", "x">>, "ogex" >>, << <<"m", "o", "d", "e", "l",
    "/", "v", "n", "d", ".", "p", "a", "r", "a", "s", "o", "l", "i", "d",
    ".", "t", "r", "a", "n", "s", "m", "i", "t", ".", "b", "i", "n", "a",
    "r", "y">>, "x_b" >>, << <<"m", "o", "d", "e", "l", "/", "v", "n", "d",
    ".", "p", "a", "r", "a", "s", "o", "l", "i", "d", ".", "t", "r", "a",
    "n", "s", "m", "i", "t", ".", "t", "e", "x", "t">>, "x_t" >>, << <<"m",
    "o", "d", "e", "l", "/", "v", "n", "d", ".", "p", "y", "t", "h", "a",
    ".", "p", "y", "o", "x">>, "pyox" >>, << <<"m", "o", "d", "e", "l", "/",
    "v", "n", "d", ".", "s", "a", "p", ".", "v", "d", "s">>, "vds" >>, <<
    <<"m", "o", "d", "e", "l", "/", "v", "n", "d", ".", "u", "s", "d",
    "a">>, "usda" >>, << <<"m", "o", "d", "e", "l", "/", "v", "n", "d", ".",
    "u", "s", "d", "z", "+", "z", "i", "p">>, "usdz" >>, << <<"m", "o", "d",
    "e", "l", "/", "v", "n", "d", ".", "v", "a", "l", "v", "e", ".", "s",
    "o", "u", "r", "c", "e", ".", "c", "o", "m", "p", "i", "l", "e", "d",
    "-", "m", "a", "p">>, "bsp" >>, << <<"m", "o", "d", "e", "l", "/", "v",
    "n", "d", ".", "v", "t", "u">>, "vtu" >>, << <<"m", "o", "d", "e", "l",
    "/", "v", "r", "m", "l">>, "wrl" >>, << <<"m", "o", "d", "e", "l", "/",
    "x", "3", "d", "+", "f", "a", "s", "t", "i", "n", "f", "o", "s", "e",
    "t">>, "x3db" >>, << <<"m", "o", "d", "e", "l", "/", "x", "3", "d", "+",
    "x", "m", "l">>, "x3d" >>, << <<"m", "o", "d", "e", "l", "/", "x", "3",
    "d", "-", "v", "r", "m", "l">>, "x3dv" >>, << <<"m", "u", "l", "t", "i",
    "p", "a", "r", "t", "/", "v", "n", "d", ".", "b", "i", "n", "t", ".",
    "m", "e", "d", "-", "p", "l", "u", "s">>, "bmed" >>, << <<"m", "u", "l",
    "t", "i", "p", "a", "r", "t", "/", "v", "o", "i", "c", "e", "-", "m",
    "e", "s", "s", "a", "g", "e">>, "vpm" >>, << <<"t", "e", "x", "t", "/",
    "c", "a", "c", "h", "e", "-", "m", "a", "n", "i", "f", "e", "s", "t">>,
    "appcache" >>, << <<"t", "e", "x", "t", "/", "c", "a", "l", "e", "n",
    "d", "a", "r">>, "ics" >>, << <<"t", "e", "x", "t", "/", "c", "q",
    "l">>, "CQL" >>, << <<"t", "e", "x", "t", "/", "c", "s", "s">>, "css"
    >>, << <<"t", "e", "x", "t", "/", "c", "s", "v">>, "csv" >>, << <<"t",
    "e", "x", "t", "/", "c", "s", "v", "-", "s", "c", "h", "e", "m", "a">>,
    "csvs" >>, << <<"t", "e", "x", "t", "/", "d", "n", "s">>, "soa" >>, <<
    <<"t", "e", "x", "t", "/", "g", "f", "f", "3">>, "gff3" >>, << <<"t",
    "e", "x", "t", "/", "h", "t", "m", "l">>, "html" >>, << <<"t", "e", "x",
    "t", "/", "j", "a", "v", "a", "s", "c", "r", "i", "p", "t">>, "es" >>,
    << <<"t", "e", "x", "t", "/", "j", "c", "r", "-", "c", "n", "d">>, "cnd"
    >>, << <<"t", "e", "x", "t", "/", "m", "a", "r", "k", "d", "o", "w",
    "n">>, "md" >>, << <<"t", "e", "x", "t", "/", "m", "i", "z", "a", "r">>,
    "miz" >>, << <<"t", "e", "x", "t", "/", "n", "3">>, "n3" >>, << <<"t",
    "e", "x", "t", "/", "p", "l", "a", "i", "n">>, "txt" >>, << <<"t", "e",
    "x", "t", "/", "p", "r", "o", "v", "e", "n", "a", "n", "c", "e", "-",
    "n", "o", "t", "a", "t", "i", "o", "n">>, "provn" >>, << <<"t", "e",
    "x", "t", "/", "p", "r", "s", ".", "f", "a", "l", "l", "e", "n", "s",
    "t", "e", "i", "n", ".", "r", "s", "t">>, "rst" >>, << <<"t", "e", "x",
    "t", "/", "p", "r", "s", ".", "l", "i", "n", "e", "s", ".", "t", "a",
    "g">>, "tag" >>, << <<"t", "e", "x", "t", "/", "r", "i", "c", "h", "t",
    "e", "x", "t">>, "rtx" >>, << <<"t", "e", "x", "t", "/", "s", "h", "a",
    "c", "l", "c">>, "shaclc" >>, << <<"t", "e", "x", "t", "/", "s", "h",
    "e", "x">>, "shex" >>, << <<"t", "e", "x", "t", "/", "s", "p", "d",
    "x">>, "spdx" >>, << <<"t", "e", "x", "t", "/", "t", "a", "b", "-", "s",
    "e", "p", "a", "r", "a", "t", "e", "d", "-", "v", "a", "l", "u", "e",
    "s">>, "tsv" >>, << <<"t", "e", "x", "t", "/", "t", "e", "x", "m", "a",
    "c", "s">>, "tm" >>, << <<"t", "e", "x", "t", "/", "t", "r", "o", "f",
    "f">>, "t" >>, << <<"t", "e", "x", "t", "/", "t", "u", "r", "t", "l",
    "e">>, "ttl" >>, << <<"t", "e", "x", "t", "/", "u", "r", "i", "-", "l",
    "i", "s", "t">>, "uris" >>, << <<"t", "e", "x", "t", "/", "v", "c", "a",
    "r", "d">>, "vcf" >>, << <<"t", "e", "x", "t", "/", "v", "n", "d", ".",
    "a">>, "a" >>, << <<"t", "e", "x", "t", "/", "v", "n", "d", ".", "a",
    "b", "c">>, "abc" >>, << <<"t", "e", "x", "t", "/", "v", "n", "d", ".",
    "a", "s", "c", "i", "i", "-", "a", "r", "t">>, "ascii" >>, << <<"t",
    "e", "x", "t", "/", "v", "n", "d", ".", "c", "u", "r", "l">>, "curl" >>,
    << <<"t", "e", "x", "t", "/", "v", "n", "d", ".", "d", "e", "b", "i",
    "a", "n", ".", "c", "o", "p", "y", "r", "i", "g", "h", "t">>,
    "copyright" >>, << <<"t", "e", "x", "t", "/", "v", "n", "d", ".", "e",
    "s", "m", "e", "r", "t", "e", "c", ".", "t", "h", "e", "m", "e", "-",
    "d", "e", "s", "c", "r", "i", "p", "t", "o", "r">>, "jtd" >>, << <<"t",
    "e", "x", "t", "/", "v", "n", "d", ".", "e", "x", "c", "h", "a", "n",
    "g", "e", "a", "b", "l", "e">>, "VFK" >>, << <<"t", "e", "x", "t", "/",
    "v", "n", "d", ".", "f", "a", "m", "i", "l", "y", "s", "e", "a", "r",
    "c", "h", ".", "g", "e", "d", "c", "o", "m">>, "ged" >>, << <<"t", "e",
    "x", "t", "/", "v", "n", "d", ".", "f", "i", "c", "l", "a", "b", ".",
    "f", "l", "t">>, "flt" >>, << <<"t", "e", "x", "t", "/", "v", "n", "d",
    ".", "f", "l", "y">>, "fly" >>, << <<"t", "e", "x", "t", "/", "v", "n",
    "d", ".", "f", "m", "i", ".", "f", "l", "e", "x", "s", "t", "o", "r">>,
    "flx" >>, << <<"t", "e", "x", "t", "/", "v", "n", "d", ".", "g", "r",
    "a", "p", "h", "v", "i", "z">>, "gv" >>, << <<"t", "e", "x", "t", "/",
    "v", "n", "d", ".", "h", "a", "n", "s">>, "hans" >>, << <<"t", "e", "x",
    "t", "/", "v", "n", "d", ".", "h", "g", "l">>, "hgl" >>, << <<"t", "e",
    "x", "t", "/", "v", "n", "d", ".", "i", "n", "3", "d", ".", "3", "d",
    "m", "l">>, "3dml" >>, << <<"t", "e", "x", "t", "/", "v", "n", "d", ".",
    "i", "n", "3", "d", ".", "s", "p", "o", "t">>, "spot" >>, << <<"t", "e",
    "x", "t", "/", "v", "n", "d", ".", "m", "s", "-", "m", "e", "d", "i",
    "a", "p", "a", "c", "k", "a", "g", "e">>, "mpf" >>, << <<"t", "e", "x",
    "t", "/", "v", "n", "d", ".", "n", "e", "t", "2", "p", "h", "o", "n",
    "e", ".", "c", "o", "m", "m", "c", "e", "n", "t", "e", "r", ".", "c",
    "o", "m", "m", "a", "n", "d">>, "ccc" >>, << <<"t", "e", "x", "t", "/",
    "v", "n", "d", ".", "s", "e", "n", "x", ".", "w", "a", "r", "p", "s",
    "c", "r", "i", "p", "t">>, "mc2" >>, << <<"t", "e", "x", "t", "/", "v",
    "n", "d", ".", "s", "o", "s", "i">>, "sos" >>, << <<"t", "e", "x", "t",
    "/", "v", "n", "d", ".", "s", "u", "n", ".", "j", "2", "m", "e", ".",
    "a", "p", "p", "-", "d", "e", "s", "c", "r", "i", "p", "t", "o", "r">>,
    "jad" >>, << <<"t", "e", "x", "t", "/", "v", "n", "d", ".", "t", "r",
    "o", "l", "l", "t", "e", "c", "h", ".", "l", "i", "n", "g", "u", "i",
    "s", "t">>, "ts" >>, << <<"t", "e", "x", "t", "/", "v", "n", "d", ".",
    "w", "a", "p", ".", "s", "i">>, "si" >>, << <<"t", "e", "x", "t", "/",
    "v", "n", "d", ".", "w", "a", "p", ".", "s", "l">>, "sl" >>, << <<"t",
    "e", "x", "t", "/", "v", "n", "d", ".", "w", "a", "p", ".", "w", "m",
    "l">>, "wml" >>, << <<"t", "e", "x", "t", "/", "v", "n", "d", ".", "w",
    "a", "p", ".", "w", "m", "l", "s", "c", "r", "i", "p", "t">>, "wmls" >>,
    << <<"t", "e", "x", "t", "/", "v", "t", "t">>, "vtt" >>, << <<"t", "e",
    "x", "t", "/", "w", "g", "s", "l">>, "wgsl" >>, << <<"t", "e", "x", "t",
    "/", "x", "-", "b", "i", "b", "t", "e", "x">>, "bib" >>, << <<"t", "e",
    "x", "t", "/", "x", "-", "b", "o", "o">>, "boo" >>, << <<"t", "e", "x",
    "t", "/", "x", "-", "c", "+", "+", "h", "d", "r">>, "h++" >>, << <<"t",
    "e", "x", "t", "/", "x", "-", "c", "+", "+", "s", "r", "c">>, "c++" >>,
    << <<"t", "e", "x", "t", "/", "x", "-", "c", "h", "d", "r">>, "h" >>, <<
    <<"t", "e", "x", "t", "/", "x", "-", "c", "o", "m", "p", "o", "n", "e",
    "n", "t">>, "htc" >>, << <<"t", "e", "x", "t", "/", "x", "-", "c", "s",
    "h">>, "csh" >>, << <<"t", "e", "x", "t", "/", "x", "-", "c", "s", "r",
    "c">>, "c" >>, << <<"t", "e", "x", "t", "/", "x", "-", "d", "i", "f",
    "f">>, "diff" >>, << <<"t", "e", "x", "t", "/", "x", "-", "d", "s", "r",
    "c">>, "d" >>, << <<"t", "e", "x", "t", "/", "x", "-", "h", "a", "s",
    "k", "e", "l", "l">>, "hs" >>, << <<"t", "e", "x", "t", "/", "x", "-",
    "j", "a", "v", "a">>, "java" >>, << <<"t", "e", "x", "t", "/", "x", "-",
    "l", "i", "l", "y", "p", "o", "n", "d">>, "ly" >>, << <<"t", "e", "x",
    "t", "/", "x", "-", "l", "i", "t", "e", "r", "a", "t", "e", "-", "h",
    "a", "s", "k", "e", "l", "l">>, "lhs" >>, << <<"t", "e", "x", "t", "/",
    "x", "-", "m", "o", "c">>, "moc" >>, << <<"t", "e", "x", "t", "/", "x",
    "-", "p", "a", "s", "c", "a", "l">>, "p" >>, << <<"t", "e", "x", "t",
    "/", "x", "-", "p", "c", "s", "-", "g", "c", "d">>, "gcd" >>, << <<"t",
    "e", "x", "t", "/", "x", "-", "p", "e", "r", "l">>, "pl" >>, << <<"t",
    "e", "x", "t", "/", "x", "-", "p", "y", "t", "h", "o", "n">>, "py" >>,
    << <<"t", "e", "x", "t", "/", "x", "-", "s", "c", "a", "l", "a">>,
    "scala" >>, << <<"t", "e", "x", "t", "/", "x", "-", "s", "e", "t", "e",
    "x", "t">>, "etx" >>, << <<"t", "e", "x", "t", "/", "x", "-", "s", "f",
    "v">>, "sfv" >>, << <<"t", "e", "x", "t", "/", "x", "-", "s", "g", "m",
    "l">>, "sgm" >>, << <<"t", "e", "x", "t", "/", "x", "-", "s", "h">>,
    "sh" >>, << <<"t", "e", "x", "t", "/", "x", "-", "t", "c", "l">>, "tcl"
    >>, << <<"t", "e", "x", "t", "/", "x", "-", "t", "e", "x">>, "tex" >>,
    << <<"t", "e", "x", "t", "/", "x", "-", "v", "c", "a", "l", "e", "n",
    "d", "a", "r">>, "vcs" >>, << <<"t", "e", "x", "t", "/", "x", "-", "v",
    "c", "a", "r", "d">>, "vcf" >>, << <<"t", "e", "x", "t", "/", "x", "m",
    "l">>, "xml" >>, << <<"v", "i", "d", "e", "o", "/", "a", "n", "n", "o",
    "d", "e", "x">>, "axv" >>, << <<"v", "i", "d", "e", "o", "/", "d",
    "v">>, "dif" >>, << <<"v", "i", "d", "e", "o", "/", "f", "l", "i">>,
    "fli" >>, << <<"v", "i", "d", "e", "o", "/", "g", "l">>, "gl" >>, <<
    <<"v", "i", "d", "e", "o", "/", "i", "s", "o", ".", "s", "e", "g", "m",
    "e", "n", "t">>, "m4s" >>, << <<"v", "i", "d", "e", "o", "/", "m", "j",
    "2">>, "mj2" >>, << <<"v", "i", "d", "e", "o", "/", "m", "p", "4">>,
    "mp4" >>, << <<"v", "i", "d", "e", "o", "/", "m", "p", "e", "g">>,
    "mpeg" >>, << <<"v", "i", "d", "e", "o", "/", "o", "g", "g">>, "ogv" >>,
    << <<"v", "i", "d", "e", "o", "/", "q", "u", "i", "c", "k", "t", "i",
    "m", "e">>, "mov" >>, << <<"v", "i", "d", "e", "o", "/", "v", "n", "d",
    ".", "d", "e", "c", "e", ".", "h", "d">>, "uvh" >>, << <<"v", "i", "d",
    "e", "o", "/", "v", "n", "d", ".", "d", "e", "c", "e", ".", "m", "o",
    "b", "i", "l", "e">>, "uvm" >>, << <<"v", "i", "d", "e", "o", "/", "v",
    "n", "d", ".", "d", "e", "c", "e", ".", "m", "p", "4">>, "uvu" >>, <<
    <<"v", "i", "d", "e", "o", "/", "v", "n", "d", ".", "d", "e", "c", "e",
    ".", "p", "d">>, "uvp" >>, << <<"v", "i", "d", "e", "o", "/", "v", "n",
    "d", ".", "d", "e", "c", "e", ".", "s", "d">>, "uvs" >>, << <<"v", "i",
    "d", "e", "o", "/", "v", "n", "d", ".", "d", "e", "c", "e", ".", "v",
    "i", "d", "e", "o">>, "uvv" >>, << <<"v", "i", "d", "e", "o", "/", "v",
    "n", "d", ".", "d", "v", "b", ".", "f", "i", "l", "e">>, "dvb" >>, <<
    <<"v", "i", "d", "e", "o", "/", "v", "n", "d", ".", "f", "v", "t">>,
    "fvt" >>, << <<"v", "i", "d", "e", "o", "/", "v", "n", "d", ".", "m",
    "p", "e", "g", "u", "r", "l">>, "mxu" >>, << <<"v", "i", "d", "e", "o",
    "/", "v", "n", "d", ".", "m", "s", "-", "p", "l", "a", "y", "r", "e",
    "a", "d", "y", ".", "m", "e", "d", "i", "a", ".", "p", "y", "v">>, "pyv"
    >>, << <<"v", "i", "d", "e", "o", "/", "v", "n", "d", ".", "n", "o",
    "k", "i", "a", ".", "i", "n", "t", "e", "r", "l", "e", "a", "v", "e",
    "d", "-", "m", "u", "l", "t", "i", "m", "e", "d", "i", "a">>, "nim" >>,
    << <<"v", "i", "d", "e", "o", "/", "v", "n", "d", ".", "r", "a", "d",
    "g", "a", "m", "e", "t", "t", "o", "o", "l", "s", ".", "b", "i", "n",
    "k">>, "bik" >>, << <<"v", "i", "d", "e", "o", "/", "v", "n", "d", ".",
    "r", "a", "d", "g", "a", "m", "e", "t", "t", "o", "o", "l", "s", ".",
    "s", "m", "a", "c", "k", "e", "r">>, "smk" >>, << <<"v", "i", "d", "e",
    "o", "/", "v", "n", "d", ".", "s", "e", "a", "l", "e", "d", ".", "m",
    "p", "e", "g", "1">>, "smpg" >>, << <<"v", "i", "d", "e", "o", "/", "v",
    "n", "d", ".", "s", "e", "a", "l", "e", "d", ".", "m", "p", "e", "g",
    "4">>, "s14" >>, << <<"v", "i", "d", "e", "o", "/", "v", "n", "d", ".",
    "s", "e", "a", "l", "e", "d", ".", "s", "w", "f">>, "sswf" >>, << <<"v",
    "i", "d", "e", "o", "/", "v", "n", "d", ".", "s", "e", "a", "l", "e",
    "d", "m", "e", "d", "i", "a", ".", "s", "o", "f", "t", "s", "e", "a",
    "l", ".", "m", "o", "v">>, "smov" >>, << <<"v", "i", "d", "e", "o", "/",
    "v", "n", "d", ".", "v", "i", "v", "o">>, "viv" >>, << <<"v", "i", "d",
    "e", "o", "/", "v", "n", "d", ".", "y", "o", "u", "t", "u", "b", "e",
    ".", "y", "t">>, "yt" >>, << <<"v", "i", "d", "e", "o", "/", "w", "e",
    "b", "m">>, "webm" >>, << <<"v", "i", "d", "e", "o", "/", "x", "-", "f",
    "l", "v">>, "flv" >>, << <<"v", "i", "d", "e", "o", "/", "x", "-", "l",
    "a", "-", "a", "s", "f">>, "lsf" >>, << <<"v", "i", "d", "e", "o", "/",
    "x", "-", "m", "a", "t", "r", "o", "s", "k", "a">>, "mpv" >>, << <<"v",
    "i", "d", "e", "o", "/", "x", "-", "m", "n", "g">>, "mng" >>, << <<"v",
    "i", "d", "e", "o", "/", "x", "-", "m", "s", "-", "w", "m">>, "wm" >>,
    << <<"v", "i", "d", "e", "o", "/", "x", "-", "m", "s", "-", "w", "m",
    "v">>, "wmv" >>, << <<"v", "i", "d", "e", "o", "/", "x", "-", "m", "s",
    "-", "w", "m", "x">>, "wmx" >>, << <<"v", "i", "d", "e", "o", "/", "x",
    "-", "m", "s", "-", "w", "v", "x">>, "wvx" >>, << <<"v", "i", "d", "e",
    "o", "/", "x", "-", "m", "s", "v", "i", "d", "e", "o">>, "avi" >>, <<
    <<"v", "i", "d", "e", "o", "/", "x", "-", "s", "g", "i", "-", "m", "o",
    "v", "i", "e">>, "movie" >> }

\* str.lower() on a content type: the capital letters of ASCII become small
\* ones, and the Kelvin sign U+212A becomes "k". Every other character is
\* left as it is: what is not a letter is its own lower case, and a letter
\* outside ASCII stays outside ASCII in lower case, where no type of the
\* table has a character.
lower(s) ==
  LET upper == <<"A", "B", "C", "D", "E", "F", "G", "H", "I", "J", "K", "L",
                 "M", "N", "O", "P", "Q", "R", "S", "T", "U", "V", "W", "X",
                 "Y", "Z", "U+212A">>
      small == <<"a", "b", "c", "d", "e", "f", "g", "h", "i", "j", "k", "l",
                 "m", "n", "o", "p", "q", "r", "s", "t", "u", "v", "w", "x",
                 "y", "z", "k">>
  IN  [i \in 1..Len(s) |->
         IF \E k \in 1..Len(upper) : upper[k] = s[i]
         THEN small[CHOOSE k \in 1..Len(upper) : upper[k] = s[i]]
         ELSE s[i]]

\* mimetypes.guess_extension: the extension of a content type, looked up in
\* lower case; None (here the empty text) for a type the table does not
\* have, such as a type followed by a parameter
guess_extension(content_type) ==
  LET type == lower(content_type)
  IN  IF \E e \in types_map_inv : e[1] = type
      THEN <<".", (CHOOSE e \in types_map_inv : e[1] = type)[2]>>
      ELSE << >>

\* Downloader._get_file_extension: "" without a Content-Type header (NoHeader)
_get_file_extension(content_type) ==
  IF content_type = NoHeader THEN << >> ELSE guess_extension(content_type)

\* Downloader._get_file_name (lines 50-66)
_get_file_name(content_disposition, url, content_type) ==
  IF content_disposition # NoHeader /\ Len(content_disposition) > 0
     /\ Contains(content_disposition, "filename=")
  THEN strip_quotes(after_last(content_disposition, "filename="))
  ELSE LET filename == after_last(url, "/")
       IN  IF ~Contains(filename, ".")
           THEN filename \o _get_file_extension(content_type)
           ELSE filename

\* _get_file_name(response, url) on any header, URL and declared content
\* type. The Content-Type headers: none, application/zip as it is in the
\* table and written Application/ZIP, text/html, application/x-unknown, which
\* the table does not have, and application/zip; charset=binary
CallFileName ==
  /\ fn = "none"
  /\ \E h \in Strings({"filename=", "\"", ";", "a", "."}, MaxHeaderLen)
                \cup {NoHeader},
        u \in Strings({"/", "a", "."}, MaxUrlLen),
        ct \in
          { NoHeader, <<"a", "p", "p", "l", "i", "c", "a", "t", "i",
          "o", "n", "/", "z", "i", "p">>, <<"A", "p", "p", "l", "i",
          "c", "a", "t", "i", "o", "n", "/", "Z", "I", "P">>, <<"t",
          "e", "x", "t", "/", "h", "t", "m", "l">>, <<"a", "p", "p",
          "l", "i", "c", "a", "t", "i", "o", "n", "/", "x", "-",
          "u", "n", "k", "n", "o", "w", "n">>, <<"a", "p", "p", "l",
          "i", "c", "a", "t", "i", "o", "n", "/", "z", "i", "p",
          ";", " ", "c", "h", "a", "r", "s", "e", "t", "=", "b",
          "i", "n", "a", "r", "y">> } :
       /\ fn_in' = [content_disposition |-> h, url |-> u, content_type |-> ct]
       /\ fn_out' = _get_file_name(h, u, ct)
  /\ fn' = "_get_file_name"
  /\ UNCHANGED allButCall

\* ------------------------------------------- DBManager.insert_error, alone
\* The exception classes involved and their base classes: pyodbc's errors
\* derive from pyodbc.Error, the application's DatabaseConnectionError from
\* DatabaseException (exceptions.py lines 27-34); both from Exception.
Bases_of(cls) ==
  CASE cls = "pyodbc.IntegrityError" ->
         {"pyodbc.IntegrityError", "pyodbc.DatabaseError", "pyodbc.Error",
          "Exception"}
    [] cls = "pyodbc.OperationalError" ->
         {"pyodbc.OperationalError", "pyodbc.DatabaseError", "pyodbc.Error",
          "Exception"}
    [] cls = "pyodbc.Error" -> {"pyodbc.Error", "Exception"}
    [] cls = "DatabaseConnectionError" ->
         {"DatabaseConnectionError", "DatabaseException", "Exception"}
    [] OTHER -> {cls, "Exception"}

\* "except handler:" takes an exception of class cls
Catches(handler, cls) == handler \in Bases_of(cls)

\* What leaves "with self.connection_pool.get_connection() as conn:" when the
\* block raised exc ("none": it did not raise). The exception is thrown into
\* the generator at its yield (dbManager.py line 43): the handler of lines
\* 45-47 replaces every pyodbc.Error by DatabaseConnectionError, anything else
\* passes through.
get_connection(exc) ==
  IF exc = "none" THEN "none"
  ELSE IF Catches("pyodbc.Error", exc) THEN "DatabaseConnectionError"
  ELSE exc

\* DBManager.insert_error (dbManager.py lines 241-262) for what the INSERT
\* does: "ok", or the class of the exception cursor.execute raises. The
\* result is the new id, None from one of the two handlers, or the exception
\* that neither handler takes.
insert_error_result(statement) ==
  LET raised == get_connection(IF statement = "ok" THEN "none" ELSE statement)
  IN  IF raised = "none" THEN [kind |-> "returned", value |-> "new_id"]
      ELSE IF Catches("pyodbc.IntegrityError", raised)
           THEN [kind |-> "returned", value |-> "None"]
      ELSE IF Catches("pyodbc.Error", raised)
           THEN [kind |-> "returned", value |-> "None"]
      ELSE [kind |-> "raised", value |-> raised]

\* what the INSERT can answer: a TypeError stands for a failure that is not a
\* database error
DatabaseErrors ==
  {"pyodbc.IntegrityError", "pyodbc.OperationalError", "pyodbc.Error"}

CallInsertError ==
  /\ fn = "none"
  /\ \E statement \in {"ok", "TypeError"} \cup DatabaseErrors :
       /\ fn_in' = statement
       /\ fn_out' = insert_error_result(statement)
  /\ fn' = "insert_error"
  /\ UNCHANGED allButCall

CallNext ==
  \/ CallSaveHashes \/ CallValidate \/ CallParse \/ CallFileName
  \/ CallInsertError

CallSpec == OnePageInit /\ [][CallNext]_vars

\* ------------------------------------- Downloader, parallel invocations
allButDownloads == <<crawlAll, faults, vt, lookup, pool, call, saves>>

\* downloader.py lines 160-171: the response arrived, its file name gives the
\* base name, and _get_unique_file_path probes the folder for a free path.
ProbeFolder(c) ==
  /\ dl_pc[c] = "idle" /\ dl_done[c] < MaxDownloads
  /\ \E base \in Bases :
       /\ dl_base' = [dl_base EXCEPT ![c] = base]
       /\ dl_path' = [dl_path EXCEPT ![c] = _get_unique_file_path(dl_folder, base)]
  /\ dl_pc' = [dl_pc EXCEPT ![c] = "probed"]
  /\ UNCHANGED <<dl_done, dl_folder, dl_archives>>

\* downloader.py line 175: ZipFile(file_path, "w") creates the file, or
\* truncates it if it exists by now ("ok"); when the open raises OSError
\* ("io") the handler of lines 186-194 deletes what is at the path, which
\* can only be another caller's archive, and no path is returned.
CreateArchive(c) ==
  /\ dl_pc[c] = "probed"
  /\ \E d \in {"ok", "io"} :
       IF d = "ok"
       THEN /\ dl_folder' = dl_folder \cup {dl_path[c]}
            /\ dl_pc' = [dl_pc EXCEPT ![c] = "created"]
            /\ UNCHANGED <<dl_done, dl_path>>
       ELSE /\ dl_folder' = dl_folder \ {dl_path[c]}
            /\ dl_pc' = [dl_pc EXCEPT ![c] = "idle"]
            /\ dl_done' = [dl_done EXCEPT ![c] = dl_done[c] + 1]
            /\ dl_path' = [dl_path EXCEPT ![c] = NoPath]
  /\ UNCHANGED <<dl_base, dl_archives>>

\* downloader.py lines 176-194: the response is written into the archive and
\* the archive is closed ("ok": the path is returned; the file is in the
\* folder unless another caller has deleted it since); an OSError while
\* writing ("io") deletes the file at the path and no path is returned; any
\* other exception ("unexpected") leaves the file and returns no path (lines
\* 209-212).
WriteArchive(c) ==
  /\ dl_pc[c] = "created"
  /\ \E d \in {"ok", "io", "unexpected"} :
       /\ dl_folder' = IF d = "io" THEN dl_folder \ {dl_path[c]}
                       ELSE dl_folder
       /\ dl_archives' = IF d = "ok"
                         THEN dl_archives \cup
                                {[by |-> c, n |-> dl_done[c] + 1,
                                  path |-> dl_path[c]]}
                         ELSE dl_archives
  /\ dl_pc' = [dl_pc EXCEPT ![c] = "idle"]
  /\ dl_done' = [dl_done EXCEPT ![c] = dl_done[c] + 1]
  /\ dl_path' = [dl_path EXCEPT ![c] = NoPath]
  /\ UNCHANGED dl_base

DownloadsNext ==
  /\ \E c \in Callers :
       ProbeFolder(c) \/ CreateArchive(c) \/ WriteArchive(c)
  /\ UNCHANGED allButDownloads

DownloadsSpec == OnePageInit /\ [][DownloadsNext]_vars

\* ------------------------------------- save_hashes, parallel invocations
allButSaves == <<crawlAll, vt, lookup, pool, call, downloads>>

\* The sink file is a text, a sequence of characters; a file that does not
\* exist is the empty text (save_hashes starts from {} without one as it does
\* with an empty one). A digest is 64 hexadecimal digits: each digit of the
\* digest d is written d, so the text of "h1" is 64 times the character "h1".
\* json.dumps(hash_value): null for None, else the digest between quotes.
dumps(digest) ==
  IF digest = NULL THEN <<"n", "u", "l", "l">>
  ELSE <<"\"">> \o [i \in 1..64 |-> digest] \o <<"\"">>

\* A dict is the sequence of its items, in the order of their insertion, an
\* item being a key with the text of its value (a string between its quotes,
\* or null). json.dump(data, f, indent=4, ensure_ascii=False) writes "{}"
\* for the empty dict, else every item on a line of its own, indented by four
\* blanks, "," after each but the last. No key and no value here holds a
\* character that json.dump escapes.
RECURSIVE dump_items(_, _)
dump_items(dict, i) ==
  IF i > Len(dict) THEN << >>
  ELSE (IF i > 1 THEN <<",">> ELSE << >>)
         \o <<"\n", " ", " ", " ", " ", "\"">> \o dict[i][1]
         \o <<"\"", ":", " ">> \o dict[i][2] \o dump_items(dict, i + 1)

dump(dict) ==
  IF Len(dict) = 0 THEN <<"{", "}">>
  ELSE <<"{">> \o dump_items(dict, 1) \o <<"\n", "}">>

\* line 83, data[file_name] = hash_value: the value of a key the dict has is
\* replaced where it stands, a new key goes to the end
setitem(dict, key, value) ==
  IF \E i \in 1..Len(dict) : dict[i][1] = key
  THEN [i \in 1..Len(dict) |->
          IF dict[i][1] = key THEN <<key, value>> ELSE dict[i]]
  ELSE Append(dict, <<key, value>>)

\* json.load reads the text character by character. One step of the reading:
\* st.mode is what is expected next, st.key and st.str hold the key and the
\* string being read, st.data the items read. White space is skipped between
\* the tokens; a string ends at the next quote and may not hold a line break
\* or another control character; a key read twice keeps its place and takes
\* the later value. The texts a sink file can hold are made of the characters
\* of json.dump's texts of names and digests: no backslash, no bracket, no
\* digit or letter outside a string but those of null.
scan_step(st, c) ==
  LET ws == c \in {" ", "\n", "\t", "\r"}
      control == c \in {"\n", "\t", "\r"}
      to(m) == [st EXCEPT !.mode = m]
      fail == to("invalid")
  IN  CASE st.mode = "start" ->
             IF ws THEN st
             ELSE IF c = "{" THEN to("open")
             ELSE IF c = "\"" THEN [to("top_string") EXCEPT !.str = << >>]
             ELSE IF c = "n" THEN [to("top_null") EXCEPT !.str = <<"n">>]
             ELSE fail
        [] st.mode = "top_string" ->
             IF c = "\"" THEN to("top_end")
             ELSE IF control THEN fail ELSE st
        [] st.mode = "top_null" ->
             IF Len(st.str) < 4 /\ c = <<"n", "u", "l", "l">>[Len(st.str) + 1]
             THEN [to(IF Len(st.str) = 3 THEN "top_end" ELSE "top_null")
                     EXCEPT !.str = Append(st.str, c)]
             ELSE fail
        [] st.mode = "top_end" -> IF ws THEN st ELSE fail
        [] st.mode = "open" ->
             IF ws THEN st
             ELSE IF c = "}" THEN to("end")
             ELSE IF c = "\"" THEN [to("key") EXCEPT !.key = << >>]
             ELSE fail
        [] st.mode = "key" ->
             IF c = "\"" THEN to("colon")
             ELSE IF control THEN fail
             ELSE [st EXCEPT !.key = Append(st.key, c)]
        [] st.mode = "colon" ->
             IF ws THEN st ELSE IF c = ":" THEN to("value") ELSE fail
        [] st.mode = "value" ->
             IF ws THEN st
             ELSE IF c = "\"" THEN [to("string") EXCEPT !.str = <<"\"">>]
             ELSE IF c = "n" THEN [to("null") EXCEPT !.str = <<"n">>]
             ELSE fail
        [] st.mode = "string" ->
             IF c = "\""
             THEN [to("next") EXCEPT
                     !.data = setitem(st.data, st.key, Append(st.str, c))]
             ELSE IF control THEN fail
             ELSE [st EXCEPT !.str = Append(st.str, c)]
        [] st.mode = "null" ->
             IF c = <<"n", "u", "l", "l">>[Len(st.str) + 1]
             THEN IF Len(st.str) = 3
                  THEN [to("next") EXCEPT
                          !.data = setitem(st.data, st.key, Append(st.str, c))]
                  ELSE [st EXCEPT !.str = Append(st.str, c)]
             ELSE fail
        [] st.mode = "next" ->
             IF ws THEN st
             ELSE IF c = "," THEN to("comma")
             ELSE IF c = "}" THEN to("end")
             ELSE fail
        [] st.mode = "comma" ->
             IF ws THEN st
             ELSE IF c = "\"" THEN [to("key") EXCEPT !.key = << >>]
             ELSE fail
        [] st.mode = "end" -> IF ws THEN st ELSE fail
        [] OTHER -> st

\* the reading of the characters from..to of the text, one after the other
\* (the first half of them, then the second)
RECURSIVE scan(_, _, _, _)
scan(text, from, to, st) ==
  IF st.mode = "invalid" \/ from > to THEN st
  ELSE IF from = to THEN scan_step(st, text[from])
  ELSE LET mid == (from + to) \div 2
       IN  scan(text, mid + 1, to, scan(text, from, mid, st))

\* lines 72-77, json.load(f): the dict the text holds ("object"), another
\* JSON value ("other": a string or null on its own), or JSONDecodeError
\* ("invalid") for a text that is no JSON, the empty one included
load(text) ==
  LET st == scan(text, 1, Len(text),
                 [mode |-> "start", key |-> << >>, str |-> << >>,
                  data |-> << >>])
  IN  [kind |-> CASE st.mode = "end" -> "object"
                  [] st.mode = "top_end" -> "other"
                  [] OTHER -> "invalid",
       data |-> IF st.mode = "end" THEN st.data ELSE << >>]

\* hashManager.py lines 70-83: the call, made with an archive name and a
\* digest (calculate_sha256's None is saved like a digest), reads the sink
\* file and sets the key in what it read. The data is {} for a text that is
\* no JSON (75-77) and for a file whose reading raises ("read_refused",
\* 78-80). When the text is JSON that is no dict, setting the key raises and
\* the call returns False (96-98).
LoadSink(c) ==
  /\ hs_pc[c] = "idle" /\ hs_done[c] < MaxSaves
  /\ \E name \in {<<"a", ".", "z", "i", "p">>, <<"b", ".", "z", "i", "p">>},
        digest \in Digests \cup {NULL}, r \in {"ok", "read_refused"} :
       LET read == IF r = "ok" THEN load(hs_text)
                   ELSE [kind |-> "invalid", data |-> << >>]
       IN  /\ Budget(Cost(r))
           /\ hs_arg' = [hs_arg EXCEPT ![c] = <<name, dumps(digest)>>]
           /\ IF read.kind = "other"
              THEN /\ hs_pc' = [hs_pc EXCEPT ![c] = "idle"]
                   /\ hs_done' = [hs_done EXCEPT ![c] = hs_done[c] + 1]
                   /\ UNCHANGED hs_data
              ELSE /\ hs_pc' = [hs_pc EXCEPT ![c] = "loaded"]
                   /\ hs_data' = [hs_data EXCEPT
                                    ![c] = setitem(read.data, name,
                                                   dumps(digest))]
                   /\ UNCHANGED hs_done
  /\ UNCHANGED <<hs_text, hs_saved>>

\* line 86: open(HASH_FILE, "w") truncates the file, whatever it holds and
\* whoever else has it open; when the open is refused the call returns False
OpenSink(c) ==
  /\ hs_pc[c] = "loaded"
  /\ \E w \in {"ok", "open_refused"} :
       /\ Budget(Cost(w))
       /\ IF w = "ok"
          THEN /\ hs_text' = << >>
               /\ hs_pc' = [hs_pc EXCEPT ![c] = "opened"]
               /\ UNCHANGED hs_done
          ELSE /\ hs_pc' = [hs_pc EXCEPT ![c] = "idle"]
               /\ hs_done' = [hs_done EXCEPT ![c] = hs_done[c] + 1]
               /\ UNCHANGED hs_text
  /\ UNCHANGED <<hs_arg, hs_data, hs_saved>>

\* lines 87-98: json.dump writes into the file object's buffer and leaving
\* the with block writes the buffer to the file, from the file's beginning:
\* over what another call has written there since this call's open, the end
\* of a longer text staying behind. Written in full, the call returns True;
\* when the writing raises after written characters of the text (none, or a
\* part of it), those are in the file and the call returns False. hs_saved
\* is what the calls that returned True saved, a later value of a key
\* replacing the earlier one.
StoreSink(c) ==
  /\ hs_pc[c] = "opened"
  /\ LET text == dump(hs_data[c])
     IN  \E written \in 0..Len(text) :
           /\ Budget(IF written = Len(text) THEN 0 ELSE 1)
           /\ hs_text' = SubSeq(text, 1, written)
                           \o SubSeq(hs_text, written + 1, Len(hs_text))
           /\ hs_saved' = IF written = Len(text)
                          THEN {e \in hs_saved : e[1] # hs_arg[c][1]}
                                 \cup {hs_arg[c]}
                          ELSE hs_saved
  /\ hs_pc' = [hs_pc EXCEPT ![c] = "idle"]
  /\ hs_done' = [hs_done EXCEPT ![c] = hs_done[c] + 1]
  /\ UNCHANGED <<hs_arg, hs_data>>

SavesNext ==
  /\ \E c \in Callers : LoadSink(c) \/ OpenSink(c) \/ StoreSink(c)
  /\ UNCHANGED allButSaves

SavesSpec == OnePageInit /\ [][SavesNext]_vars

\* ============================================================== properties
Range(s) == {s[i] : i \in 1..Len(s)}

IsPrefix(s, t) == Len(s) <= Len(t) /\ s = SubSeq(t, 1, Len(s))

\* positions of the Crack rows written for an item, of the Error rows that
\* reference a Crack row
CrackRows(it) == {i \in 1..Len(cracks) : cracks[i].item = it}
ErrorRows(crack_id) == {i \in 1..Len(errors) : errors[i].crack = crack_id}

FailedStages == {"size", "timeout", "exception", "download"}

ItemPcs ==
  {"item", "get_info", "validate", "open_detail", "switch", "click_begin",
   "report_wait", "click_second", "wait_link", "get_href", "close_detail",
   "download", "hash", "except_timeout", "except_other", "finally"}

\* ----------------------------------------------------------------------- C1
\* C1 as stated: every item crawl_page is done with, whatever its stage, has
\* exactly one Crack row, and that row references the crawler's job.
C1_ExactlyOneCrack ==
  \A i \in 1..Len(finished) :
    /\ Cardinality(CrackRows(finished[i].item)) = 1
    /\ \A r \in CrackRows(finished[i].item) : cracks[r].job = JobId

\* C1: every item crawl_page is done with, whatever its stage, has at most one
\* Crack row referencing the crawler's job: exactly one when insert_hash and
\* insert_crack returned, none when the INSERT of insert_crack did not run,
\* and none or one when insert_crack raised after its INSERT (the row is then
\* published by a later commit, if there is one); and no row of the job
\* exists for anything but such an item.
C1_OneCrackWhenStored ==
  /\ \A i \in 1..Len(finished) :
       /\ Cardinality(CrackRows(finished[i].item))
            <= IF finished[i].crack_ran THEN 1 ELSE 0
       /\ finished[i].crack_saved =>
            Cardinality(CrackRows(finished[i].item)) = 1
       /\ \A r \in CrackRows(finished[i].item) : cracks[r].job = JobId
  /\ \A r \in 1..Len(cracks) :
       cracks[r].job = JobId =>
         \E i \in 1..Len(finished) : finished[i].item = cracks[r].item

C1_Witness ==
  /\ Len(finished) = 2
  /\ finished[1].stage = "timeout" /\ finished[1].crack_saved
  /\ finished[2].stage = "success" /\ ~finished[2].crack_saved
  /\ Len(cracks) = 1

\* ----------------------------------------------------------------------- C2
FinishedOn(p) == SelectSeq(finished, LAMBDA f : f.item[1] = p)

\* C2: a failure of one item never ends the page loop: control is outside the
\* item loop only when every item found on the page is done, and inside the
\* loop the items done on the page are exactly the first index ones, in order.
C2_PageLoopNeverAborted ==
  /\ pc \notin ItemPcs => index = nItems
  /\ pc \in ItemPcs \ {"item"} => index < nItems
  /\ pc \in ItemPcs \cup {"next_button"} =>
       /\ Len(FinishedOn(page)) = index
       /\ \A i \in 1..index : FinishedOn(page)[i].item = <<page, i>>

C2_Witness ==
  /\ pc = "next_button" /\ nItems = 2
  /\ Len(finished) = 2
  /\ finished[1].item = <<page, 1>> /\ finished[1].stage = "timeout"
  /\ ~finished[1].crack_saved
  /\ finished[2].item = <<page, 2>> /\ finished[2].stage = "success"

\* ----------------------------------------------------------------------- C3
DownloadErrorMessages == {DownloadMessage(d) : d \in DownloadOutcomes \ {"ok"}}

\* the messages that name a failed stage's category
Category(st) ==
  CASE st = "size" -> {SizeMessage}
    [] st = "timeout" -> {TimeoutMessage}
    [] OTHER -> DownloadErrorMessages

\* C3 as stated: every failed item (size rejection, timeout, other exception,
\* failed download) whose rows the store took has an Error row that names its
\* category and references its Crack row.
C3_FailedItemsHaveError ==
  \A i \in 1..Len(finished) :
    (finished[i].stage \in FailedStages
       /\ finished[i].crack_saved /\ finished[i].errors_saved) =>
      \E r \in CrackRows(finished[i].item) :
        \E e \in ErrorRows(cracks[r].id) :
          errors[e].message \in Category(finished[i].stage)

\* ----------------------------------------------------------------------- C4
\* C4: a Crack row has its hash reference and its archive name both set or
\* both null, the reference names a Hash row, and they are set exactly for
\* the items whose download succeeded and whose hash was computed.
C4_HashAndArchiveTogether ==
  /\ \A r \in 1..Len(cracks) :
       /\ (cracks[r].hash # 0) <=> (cracks[r].archive # NoPath)
       /\ cracks[r].hash \in 0..Len(hashes)
  /\ \A i \in 1..Len(finished) :
       \A r \in CrackRows(finished[i].item) :
         (cracks[r].hash # 0 /\ cracks[r].archive # NoPath)
           <=> (finished[i].stage = "success")

C4_Witness ==
  /\ Len(finished) = 2 /\ Len(cracks) = 2
  /\ finished[1].stage = "hash"
  /\ cracks[1].hash = 0 /\ cracks[1].archive = NoPath
  /\ finished[2].stage = "success"
  /\ cracks[2].hash # 0 /\ cracks[2].archive # NoPath

\* ----------------------------------------------------------------------- C5
FlagCount ==
  (IF size_exception # NULL THEN 1 ELSE 0)
  + (IF timeout_exception # NULL THEN 1 ELSE 0)
  + (IF download_exception THEN 1 ELSE 0)

\* C5: at most one of the three failure flags is set at any point of an
\* item's attempt, so no Crack row has more than one Error row.
C5_AtMostOneFlag ==
  /\ FlagCount <= 1
  /\ \A r \in 1..Len(cracks) : Cardinality(ErrorRows(cracks[r].id)) <= 1

C5_Witness ==
  /\ pc = "finally" /\ download_exception /\ FlagCount = 1
  /\ Len(cracks) = 1 /\ Cardinality(ErrorRows(cracks[1].id)) = 1
  /\ errors[1].message = TimeoutMessage

\* ----------------------------------------------------------------------- C6
\* what the size gate leaves of an attempt: the item's text was read, nothing
\* was opened and nothing downloaded
SizeRejectedTrace == <<"info", "size_rejected">>

\* C6 as stated: a size-rejected item opens no detail window, downloads
\* nothing, and has exactly one Crack row with null hash and archive and
\* exactly one Error row with the size message referencing it.
C6_SizeRejectedRows ==
  \A i \in 1..Len(finished) :
    finished[i].stage = "size" =>
      /\ ~finished[i].downloaded
      /\ Cardinality(CrackRows(finished[i].item)) = 1
      /\ \A r \in CrackRows(finished[i].item) :
           /\ cracks[r].hash = 0 /\ cracks[r].archive = NoPath
           /\ Cardinality(ErrorRows(cracks[r].id)) = 1
           /\ \A e \in ErrorRows(cracks[r].id) : errors[e].message = SizeMessage

\* C6: an item whose size the gate rejects goes straight to the finally
\* block with no detail window opened and no download; if the store takes
\* the writes it has exactly one Crack row with null hash and archive and
\* exactly one Error row with the size message; if an insert raises it has at
\* most that Crack row and at most that Error row (a row whose insert raised
\* after its INSERT is published by a later commit, if there is one), and no
\* Error row unless insert_crack returned.
C6_SizeRejectedWhenStored ==
  /\ (pc \in ItemPcs \ {"item", "get_info", "validate"}
        /\ file_size # NoPath /\ validate_file_size(file_size, max_file_size_mb) = "reject") =>
       /\ pc = "finally" /\ stage = "size"
       /\ trace = SizeRejectedTrace
       /\ download_path = NoPath /\ ~download_exception
  /\ \A i \in 1..Len(finished) :
       finished[i].stage = "size" =>
         /\ ~finished[i].downloaded
         /\ Cardinality(CrackRows(finished[i].item))
              <= IF finished[i].crack_ran THEN 1 ELSE 0
         /\ finished[i].crack_saved =>
              Cardinality(CrackRows(finished[i].item)) = 1
         /\ \A r \in CrackRows(finished[i].item) :
              /\ cracks[r].hash = 0 /\ cracks[r].archive = NoPath
              /\ Cardinality(ErrorRows(cracks[r].id))
                   <= IF finished[i].crack_saved THEN 1 ELSE 0
              /\ finished[i].errors_saved =>
                   Cardinality(ErrorRows(cracks[r].id)) = 1
              /\ \A e \in ErrorRows(cracks[r].id) :
                   errors[e].message = SizeMessage

C6_Witness ==
  /\ Len(finished) = 2
  /\ finished[1].stage = "size" /\ finished[1].errors_saved
  /\ finished[2].stage = "size" /\ ~finished[2].crack_saved
  /\ Len(cracks) = 1 /\ Len(errors) = 1 /\ errors[1].message = SizeMessage
  /\ files = {}

\* ----------------------------------------------------------------------- C7
\* the steps of a full attempt, in the order of the code
FullTrace ==
  <<"info", "window_open", "switch_detail", "click_begin", "report_wait",
    "click_second", "wait_link", "href", "close_window", "download", "hash">>

ResolvedTrace == SubSeq(FullTrace, 1, 9)

StepOrder(t) == IsPrefix(t, FullTrace) \/ t = SizeRejectedTrace

\* C7 as stated: the steps run in the fixed order, download_file is called
\* only after the link was obtained and with the detail window closed, and
\* never for an item whose detail resolution failed.
C7_DownloadAfterClosedDetail ==
  /\ StepOrder(trace)
  /\ pc = "download" =>
       /\ trace = ResolvedTrace
       /\ "detail" \notin Range(handles)
  /\ \A i \in 1..Len(finished) :
       finished[i].stage \in {"size", "timeout", "exception"} =>
         ~finished[i].downloaded

\* C7: the steps run in the fixed order; download_file is called only after
\* the link was obtained and close_window was called for the detail window,
\* which is then closed with the primary window current if no call of the
\* crawl has failed (a failing close is swallowed and leaves the window
\* open); and it is never called for an item whose detail resolution failed.
C7_DownloadAfterCloseCalled ==
  /\ StepOrder(trace)
  /\ pc = "download" =>
       /\ trace = ResolvedTrace
       /\ stage = "running"
       /\ faults = 0 => (handles = <<"main">> /\ cur = 1)
  /\ stage \in {"size", "timeout", "exception"} => "download" \notin Range(trace)
  /\ \A i \in 1..Len(finished) :
       finished[i].stage \in {"size", "timeout", "exception"} =>
         ~finished[i].downloaded

C7_Witness ==
  /\ pc = "download" /\ trace = ResolvedTrace
  /\ handles = <<"main", "detail">> /\ cur = 2
  /\ Len(finished) = 1 /\ finished[1].stage = "timeout"
  /\ ~finished[1].downloaded

\* ----------------------------------------------------------------------- C8
Pages(n) == [i \in 1..n |-> i]

\* C8 as stated: on a site of nPages pages, a crawl that no page-level call
\* failed loads pages 1 .. nPages in order, each once, and nothing after.
C8_AllPagesLoaded ==
  /\ IsPrefix(visited, Pages(nPages))
  /\ (pc = "done" /\ ~pageFault) => visited = Pages(nPages)

\* ----------------------------------------------------------------------- C9
\* C9: once a page raised, the loop is over and no later page is loaded; the
\* exception stays inside crawl; and whenever crawl is over, by the last page
\* or by a failure, it returned with the browser session quit.
C9_FailureStopsAndQuits ==
  /\ loopEnd = "exception" =>
       /\ pc \in {"close", "done"}
       /\ visited = Pages(page)
  /\ outcome \in {"running", "returned"}
  /\ (pc = "done") <=> (outcome = "returned")
  /\ pc = "done" => (quit /\ handles = << >> /\ loopEnd # "none")
  /\ quit => pc = "done"

C9_Witness ==
  /\ pc = "done" /\ outcome = "returned" /\ quit
  /\ loopEnd = "exception" /\ pageFault
  /\ page = 1 /\ nPages = 2 /\ visited = <<1>>

\* ---------------------------------------------------------------------- C10
AntivirusRows(n, aid) == [i \in 1..n |-> [engine |-> i, analysis |-> aid]]

Marked(id) == \E i \in 1..Len(samples) : samples[i].testid = id /\ samples[i].analysed

\* C10: when the status GET was answered attempts times (fewer than
\* max_attempts) with not-ready and then with a completed verdict whose
\* result list could be read, and every call that writes to the store
\* returned, it was polled attempts + 1 times, there is one
\* Analysis row, one Antivirus row per engine of the verdict referencing it,
\* and the Sample row of the test id, and no other, is marked with that
\* analysis; the Sample row is marked only after all those rows were written.
C10_PollsAndRows ==
  /\ (data = "verdict" /\ ~storeFault /\ ~engineFault) =>
       /\ attempts < max_attempts /\ polls = attempts + 1
       /\ Len(analyses) = 1 /\ analysis_id = analyses[1].id
       /\ antivirus = AntivirusRows(results, analysis_id)
       /\ samples = << [name |-> "old", testid |-> "t0", analysed |-> FALSE,
                        analysis |-> 0],
                       [name |-> "file", testid |-> test_id, analysed |-> TRUE,
                        analysis |-> analysis_id] >>
  /\ (vt_pc \in {"insert_antivirus", "update_sample"} /\ ~storeFault) =>
       /\ Len(analyses) = 1 /\ analysis_id = analyses[1].id
       /\ antivirus = AntivirusRows(av_index, analysis_id)
       /\ ~Marked(test_id)
  /\ (vt_pc = "update_sample" /\ ~storeFault) => av_index = results
  /\ Marked("t1") => (av_index = results /\ vt_pc \notin {"insert_antivirus", "update_sample"})
  /\ ~Marked("t0")

C10_Witness ==
  /\ vt_outcome = "completed" /\ data = "verdict" /\ ~storeFault
  /\ attempts = 2 /\ polls = 3
  /\ results = 2 /\ Len(antivirus) = 2
  /\ Marked("t1")

\* ---------------------------------------------------------------------- C11
\* the answers analyseFile turns into None
NotReadyAnswers == {"rate_limit", "timeout", "pending"}

\* C11 as stated: never more than max_attempts status polls; and a task that
\* is over with every poll answered not-ready ended with the timeout error,
\* after exactly max_attempts polls.
C11_BudgetThenTimeout ==
  /\ polls <= max_attempts
  /\ (vt_pc = "done" /\ polls > 0 /\ answer \in NotReadyAnswers) =>
       (vt_outcome = "timed_out" /\ polls = max_attempts)

\* ---------------------------------------------------------------------- C12
\* C12 as stated: a task whose last status poll was answered 429 has not
\* failed; the answer took one attempt of the budget.
C12_RateLimitNeverFails ==
  (polls > 0 /\ answer = "rate_limit") =>
    /\ vt_outcome # "failed"
    /\ vt_pc \in {"loop", "poll", "after", "done"} => attempts = polls

\* ---------------------------------------------------------------------- C13
\* C13: once a status poll was answered with an HTTP error status other than
\* 429 the task is over, failed, with that poll its last, and the analysis
\* and antivirus tables hold nothing and no Sample row is marked.
C13_HttpErrorIsFatal ==
  (polls > 0 /\ answer = "http_error") =>
    /\ vt_pc = "done" /\ vt_outcome = "failed"
    /\ polls = attempts + 1
    /\ data = NULL
    /\ analyses = << >> /\ antivirus = << >>
    /\ \A i \in 1..Len(samples) : ~samples[i].analysed

C13_Witness ==
  /\ answer = "http_error" /\ polls = 3 /\ attempts = 2
  /\ vt_pc = "done" /\ vt_outcome = "failed"
  /\ Len(samples) = 2

\* ---------------------------------------------------------------------- C14
\* FILE_UPLOADED first and only first, COMPLETED last and only after an
\* ANALYSING, ANALYSING everywhere else
ReportOrder(r) ==
  \A i \in 1..Len(r) :
    /\ (r[i] = "FILE_UPLOADED") <=> (i = 1)
    /\ r[i] \in {"FILE_UPLOADED", "ANALYSING", "COMPLETED"}
    /\ r[i] = "COMPLETED" => (i = Len(r) /\ i >= 3)

\* C14: a task that is over ended as exactly one of completed, timed out and
\* failed, and one that is not over has no outcome; no status poll is issued
\* without the test id of the submission; the job states are reported in the
\* order FILE_UPLOADED, ANALYSING (one or more), COMPLETED (at most one), and
\* COMPLETED only after a poll was answered with a completed verdict.
C14_LifeCycle ==
  /\ vt_outcome \in {"running", "completed", "timed_out", "failed"}
  /\ (vt_pc = "done") <=> (vt_outcome # "running")
  /\ (vt_pc = "poll" \/ polls > 0) => (test_id # NULL /\ answer # "none")
  /\ ReportOrder(reported)
  /\ (\E i \in 1..Len(reported) : reported[i] = "COMPLETED") =>
       (data = "verdict" /\ answer = "completed" /\ vt_outcome = "completed")
  /\ vt_outcome = "completed" => reported[Len(reported)] = "COMPLETED"
  /\ vt_outcome = "timed_out" => (data = NULL /\ attempts = max_attempts)

C14_Witness ==
  /\ vt_pc = "done" /\ vt_outcome = "completed"
  /\ reported = <<"FILE_UPLOADED", "ANALYSING", "ANALYSING", "COMPLETED">>
  /\ polls = 2

\* ---------------------------------------------------------------------- C15
\* C15 as stated: a 429 answer to the upload does not end the task in
\* failure.
C15_UploadRateLimitNotFatal ==
  (polls = 0 /\ answer = "rate_limit") => vt_outcome # "failed"

\* ---------------------------------------------------------------------- C16
\* the callers whose call for v is over
Finished(v) ==
  {c \in Callers : lk_value[c] = v /\ lk_pc[c] \in {"returned", "raised"}}

\* C16 as stated: calls for the same value that ran at the same time all
\* returned, with the same identifier, and one row holds the value.
C16_ConcurrentSameId ==
  \A v \in Digests :
    Finished(v) # {} =>
      /\ \A c \in Finished(v) : lk_pc[c] = "returned"
      /\ \A c, d \in Finished(v) : lk_ret[c] = lk_ret[d]
      /\ Cardinality(Matching(v)) = 1

\* ---------------------------------------------------------------------- C17
NoDuplicates(table) ==
  \A i, j \in 1..Len(table) : table[i] = table[j] => i = j

\* C17: get-or-create calls made one after the other leave one Hash row per
\* distinct digest, and a call for a digest that is there returns the
\* identifier the first call got and inserts nothing: every Crack row with a
\* hash references the row holding the digest recorded for its archive.
C17_SequentialIdempotent ==
  /\ NoDuplicates(hashes)
  /\ \A v \in Digests : get_or_create(get_or_create(hashes, v), v)
                          = get_or_create(hashes, v)
  /\ \A v \in Range(hashes) : get_or_create(hashes, v) = hashes
  /\ \A r \in 1..Len(cracks) :
       cracks[r].hash # 0 =>
         /\ cracks[r].hash \in 1..Len(hashes)
         /\ \A e \in load_sink(sink) :
              e[1] = cracks[r].archive => hashes[cracks[r].hash] = e[2]

C17_Witness ==
  /\ Len(cracks) = 2 /\ Len(hashes) = 1
  /\ cracks[1].hash = 1 /\ cracks[2].hash = 1
  /\ cracks[1].archive # cracks[2].archive
  /\ \E e \in load_sink(sink) : e[1] = cracks[2].archive /\ e[2] = hashes[1]

\* ---------------------------------------------------------------------- C18
\* C18 as stated: get-or-create never raises because its INSERT met the
\* unique constraint; it ends by returning the identifier of a row holding
\* the value.
C18_ConstraintViolationResolved ==
  \A c \in Callers :
    /\ lk_pc[c] # "raised"
    /\ lk_pc[c] = "returned" => lk_ret[c] \in Matching(lk_value[c])

\* ---------------------------------------------------------------------- C19
\* C19 as stated: a download_file call that returns no path leaves the
\* folder as it found it: nothing is left at the destination it chose.
C19_NoPartialArchive ==
  [][(pc = "download" /\ download_path' = NoPath) => files' = files]_vars

\* ---------------------------------------------------------------------- C20
DownloadMessages == {DownloadMessage(d) : d \in DownloadOutcomes}

\* C20: download_file never raises: whatever happens to the request or to
\* the archive it returns a message, a path and an error flag, the path
\* absent exactly when the flag is set; the item goes on to the hashing
\* step and to no exception handler.
C20_DownloadNeverRaises ==
  /\ \A d \in DownloadOutcomes :
       LET r == download_file(files, "f", d)
       IN  /\ (r.path = NoPath) <=> r.error
           /\ r.info \in DownloadMessages
           /\ r.error <=> (d # "ok")
  /\ "download" \in Range(trace) =>
       /\ pc \in {"hash", "finally", "item"}
       /\ (download_path = NoPath) <=> download_exception
       /\ download_info \in DownloadMessages
       /\ stage \in {"running", "download", "hash", "success"}

C20_Witness ==
  /\ pc = "hash" /\ "download" \in Range(trace)
  /\ download_exception /\ download_path = NoPath
  /\ download_info = "Download timeout"
  /\ Len(finished) = 1 /\ finished[1].stage = "success"

\* ---------------------------------------------------------------------- C21
\* C21: _get_unique_file_path returns a path that is not in the folder: the
\* base name with the smallest counter (0 standing for base.zip) whose name is
\* free; and a download_file call of a sequence into one folder never writes
\* to a path the folder already held: a written archive is one more entry of
\* the folder, the returned path is that entry, and nothing else changes.
C21_UniquePathIsFree ==
  /\ fn = "_get_unique_file_path" =>
       /\ fn_out \notin fn_in.folder
       /\ fn_out[1] = fn_in.base
       /\ \A k \in 0..(fn_out[2] - 1) : <<fn_in.base, k>> \in fn_in.folder
  /\ fn = "download_file" =>
       /\ fn_in.folder \subseteq fn_out.folder
       /\ fn_out.path # NoPath =>
            /\ fn_out.path \notin fn_in.folder
            /\ fn_out.folder = fn_in.folder \cup {fn_out.path}
       /\ fn_in.d = "unexpected_partial" =>
            Cardinality(fn_out.folder) = Cardinality(fn_in.folder) + 1
       /\ fn_in.d \notin {"ok", "unexpected_partial"} =>
            fn_out.folder = fn_in.folder

\* base.zip and base(1).zip exist, so the download is written to base(2).zip
C21_Witness ==
  /\ fn = "download_file"
  /\ {<<"a", 0>>, <<"a", 1>>} \subseteq fn_in.folder
  /\ fn_in.base = "a" /\ fn_in.d = "ok"
  /\ fn_out.path = <<"a", 2>>

\* ---------------------------------------------------------------------- C22
\* C22: under every interleaving of the users of get_connection the cache
\* never holds more than pool_size idle connections, and a release that finds
\* pool_size connections cached leaves the cache as it is and closes the
\* released connection. (That more than pool_size connections can be in use
\* at once is the reachable state C22_Witness.)
C22_CacheBounded ==
  /\ [](Len(po_pool) <= pool_size)
  /\ [][\A u \in Users :
          (po_conn[u] # 0 /\ po_conn'[u] = 0 /\ Len(po_pool) = pool_size)
            => (po_pool' = po_pool /\ po_conn[u] \in po_closed')]_vars

\* every user holds a connection: one more in use than the pool caches
C22_Witness == Cardinality(InUse) = pool_size + 1

\* ---------------------------------------------------------------------- C23
\* C23 as stated: an item whose archive could not be hashed always ends with
\* exactly one Crack row, and that row has no hash.
C23_HashFailureOneCrack ==
  \A i \in 1..Len(finished) :
    finished[i].stage = "hash" =>
      /\ Cardinality(CrackRows(finished[i].item)) = 1
      /\ \A r \in CrackRows(finished[i].item) : cracks[r].hash = 0

\* C23: when calculate_sha256 fails on a downloaded archive it returns None;
\* the item goes on to the finally block and from there to the loop head, no
\* exception leaves the iteration, and the item has at most one Crack row,
\* without a hash: one if insert_crack returned, none if its INSERT did not
\* run.
C23_HashFailureNotFatal ==
  /\ stage = "hash" =>
       /\ hash_value = NULL /\ download_path # NoPath
       /\ pc \in {"finally", "item"}
       /\ loopEnd = "none"
       /\ pc = "item" =>
            /\ index <= nItems
            /\ finished[Len(finished)].item = <<page, index>>
            /\ finished[Len(finished)].stage = "hash"
  /\ \A i \in 1..Len(finished) :
       finished[i].stage = "hash" =>
         /\ Cardinality(CrackRows(finished[i].item))
              <= IF finished[i].crack_ran THEN 1 ELSE 0
         /\ finished[i].crack_saved =>
              Cardinality(CrackRows(finished[i].item)) = 1
         /\ \A r \in CrackRows(finished[i].item) :
              cracks[r].hash = 0 /\ cracks[r].job = JobId

\* the first item's hash failed and it has its row; the second item ran to
\* the end
C23_Witness ==
  /\ Len(finished) = 2
  /\ finished[1].item = <<1, 1>> /\ finished[1].stage = "hash"
  /\ finished[1].crack_saved /\ CrackRows(<<1, 1>>) = {1}
  /\ cracks[1].hash = 0
  /\ finished[2].item = <<1, 2>> /\ finished[2].stage = "success"

\* ---------------------------------------------------------------------- C24
\* C24: a progress update whose task sink raises does not abort the item: the
\* step that reports "waiting" always leads to the second click, the stage
\* that follows a successful update, with one update recorded and nothing
\* else of the item, the browser, the store or the page loop changed.
C24_FailedUpdateSwallowed ==
  [][pc = "report_wait" =>
       /\ pc' = "click_second"
       /\ trace' = Append(trace, "report_wait")
       /\ UNCHANGED <<itemVars, browser, store, disk, stage, finished,
                      loopEnd, pageVars, page, visited, outcome>>]_vars

\* The first item stands before its second click and one call has failed: every
\* other call before this point ends the item's detail steps when it fails, so
\* the failed call is the progress update.
C24_Witness ==
  /\ pc = "click_second" /\ page = 1 /\ index = 0 /\ finished = << >>
  /\ faults = 1
  /\ trace = <<"info", "window_open", "switch_detail", "click_begin",
               "report_wait">>

\* ---------------------------------------------------------------------- C25
\* C25 as stated: when the existing sink file is corrupt (it holds no JSON,
\* or JSON that is no mapping) or cannot be read, save_hashes returns True
\* and the file it leaves holds the new name with its digest and nothing
\* else.  The claim is about the read: it is taken with the write that
\* follows succeeding, since a write that is refused or fails makes every
\* save return False.
C25_CorruptSinkRebuilt ==
  (/\ fn = "save_hashes"
   /\ fn_in.old \in {NotJson, NotAMapping} \/ fn_in.r = "unreadable"
   /\ fn_in.w = "ok") =>
    /\ fn_out.ok
    /\ fn_out.sink = {<<fn_in.name, fn_in.digest>>}

\* ---------------------------------------------------------------------- C26
\* the error a rejection must carry: the declared size string as given and
\* the configured limit
Rejection(declared, max) == [file_size |-> declared, max_size |-> max]

\* C26: every size string that contains a gigabyte marker is rejected,
\* whatever else it holds, and the error carries the declared size and the
\* configured limit.
C26_GigabyteAlwaysRejected ==
  (/\ fn = "validate_file_size"
   /\ \E i \in 1..Len(fn_in.file_size) : fn_in.file_size[i] = "GB") =>
    /\ fn_out.result = "reject"
    /\ fn_out.error = Rejection(fn_in.file_size, fn_in.max)

\* "0 GB" is rejected
C26_Witness ==
  /\ fn = "validate_file_size" /\ fn_in.file_size = <<"0", " ", "GB">>
  /\ fn_in.max = max_file_size_mb
  /\ fn_out.result = "reject"
  /\ fn_out.error = Rejection(<<"0", " ", "GB">>, max_file_size_mb)

\* ---------------------------------------------------------------------- C27
\* The characters a number is written with: the decimal digits of any script
\* and the dot; and the digit characters that stand for no decimal digit
\* (superscripts).
NumberChars == isdecimal \cup {"."}
DigitLike == NumberChars \cup NonDecimalDigits

\* The numeric portion of a size string: its digit characters and dots, in
\* order.
NumericPortion(s) == SelectSeq(s, LAMBDA c : c \in DigitLike)

\* it is a decimal number: decimal digits and dots only, at least one digit,
\* at most one dot
IsNumber(n) ==
  /\ \A i \in 1..Len(n) : n[i] \in NumberChars
  /\ \E i \in 1..Len(n) : n[i] # "."
  /\ \A i \in 1..Len(n), j \in 1..Len(n) : (n[i] = "." /\ n[j] = ".") => i = j

\* A megabyte-unit size string: the megabyte marker, no gigabyte marker, and
\* one number written in one piece.
MegabyteString(s) ==
  /\ \E i \in 1..Len(s) : s[i] = "MB"
  /\ \A i \in 1..Len(s) : s[i] # "GB"
  /\ IsNumber(NumericPortion(s))
  /\ \A i \in 1..Len(s), j \in 1..Len(s), k \in 1..Len(s) :
       (i < k /\ k < j /\ s[i] \in DigitLike /\ s[j] \in DigitLike)
         => s[k] \in DigitLike

\* the whole part and the fractional digits of the number n
WholePart(n) == SubSeq(n, 1, DotPos(n) - 1)
FracPart(n) == SubSeq(n, DotPos(n) + 1, Len(n))

\* the number n is above the whole number limit: its whole part is, or its
\* whole part equals the limit and a fractional digit is not zero
AboveLimit(n, limit) ==
  \/ CompareWhole(WholePart(n), limit) = 1
  \/ /\ CompareWhole(WholePart(n), limit) = 0
     /\ \E i \in 1..Len(FracPart(n)) : DigitVal(FracPart(n)[i]) # 0

\* the decimal places d written out to k places
Places(d, k) == [i \in 1..k |-> IF i <= Len(d) THEN DigitVal(d[i]) ELSE 0]

\* the number n is above the whole number limit by more than 0.gap: its
\* whole part is above the limit, or it equals the limit and, both written to
\* the same number of places, the fraction of n has the larger digit at the
\* first place where the two differ
AboveLimitByMoreThan(n, limit, gap) ==
  \/ CompareWhole(WholePart(n), limit) = 1
  \/ /\ CompareWhole(WholePart(n), limit) = 0
     /\ LET k == IF Len(FracPart(n)) > Len(gap) THEN Len(FracPart(n))
                 ELSE Len(gap)
            f == Places(FracPart(n), k)
            g == Places(gap, k)
        IN  \E i \in 1..k : f[i] > g[i] /\ \A j \in 1..(i - 1) : f[j] = g[j]

C28_UnparsedAccepted ==
  (fn = "validate_file_size" /\ ~IsNumber(NumericPortion(fn_in.file_size))) =>
    fn_out.result = "accept"

\* C28: a size string without a gigabyte marker whose numeric portion cannot
\* be parsed is accepted and no size-rejection error is raised.
C28_UnparsedAcceptedUnlessGigabyte ==
  (/\ fn = "validate_file_size"
   /\ ~IsNumber(NumericPortion(fn_in.file_size))
   /\ \A i \in 1..Len(fn_in.file_size) : fn_in.file_size[i] # "GB") =>
    fn_out.result = "accept" /\ fn_out.error = NULL

\* "1.2.MB": the digits and dots "1.2." are not a number, the size is accepted
C28_Witness ==
  /\ fn = "validate_file_size"
  /\ fn_in.file_size = <<"1", ".", "2", ".", "MB">>
  /\ fn_out.result = "accept"

\* ---------------------------------------------------------------------- C29
\* The lines of a text that are not blank, found by position: the number of
\* the line a character is on, and for a line that has a character other than
\* white space the text from its first such character to its last.
LineOf(s, i) == Cardinality({j \in 1..(i - 1) : s[j] = "\n"})
Inked(s) == {i \in 1..Len(s) : s[i] \notin isspace}
InkedLines(s) == {LineOf(s, i) : i \in Inked(s)}
LineText(s, n) ==
  LET on == {i \in Inked(s) : LineOf(s, i) = n}
      first == CHOOSE i \in on : \A j \in on : i <= j
      last == CHOOSE i \in on : \A j \in on : j <= i
  IN  SubSeq(s, first, last)
Largest(S) == CHOOSE n \in S : \A m \in S : m <= n
Smallest(S) == CHOOSE n \in S : \A m \in S : n <= m

\* C29: get_parsed_file_info returns for every text, the missing one
\* included: for a text with at least two non-blank lines the triple (last
\* non-blank line, first non-blank line, second-to-last non-blank line), each
\* without the white space around it, and the sentinel triple otherwise.
C29_ParseIsTotal ==
  fn = "get_parsed_file_info" =>
    IF fn_in # NoText /\ Cardinality(InkedLines(fn_in)) >= 2
    THEN LET lines == InkedLines(fn_in)
             last == Largest(lines)
         IN  fn_out = <<LineText(fn_in, last),
                        LineText(fn_in, Smallest(lines)),
                        LineText(fn_in, Largest(lines \ {last}))>>
    ELSE fn_out = <<"Unknown", "Unknown", "Unknown">>

\* "a", a blank line, " b": title "b", extension "a", size "a"
C29_Witness ==
  /\ fn = "get_parsed_file_info"
  /\ fn_in = <<"a", "\n", "\n", " ", "b">>
  /\ fn_out = << <<"b">>, <<"a">>, <<"a">> >>

\* ---------------------------------------------------------------------- C30
\* The filename a Content-Disposition header declares: the value of its
\* filename parameter, which ends at the next ";" or at the end of the header,
\* without the quotes around it.
FilenameAt(h) == CHOOSE i \in 1..Len(h) : h[i] = "filename="
ValueEnd(h) ==
  LET from == FilenameAt(h)
      stops == {j \in (from + 1)..Len(h) : h[j] = ";"}
  IN  IF stops = {} THEN Len(h)
      ELSE (CHOOSE j \in stops : \A k \in stops : j <= k) - 1
Unquoted(v) ==
  IF Len(v) >= 2 /\ v[1] \in {"\"", "'"} /\ v[Len(v)] = v[1]
  THEN SubSeq(v, 2, Len(v) - 1) ELSE v
DeclaredFilename(h) == Unquoted(SubSeq(h, FilenameAt(h) + 1, ValueEnd(h)))

\* the header declares one filename, written without quotes or between a
\* pair of quotes
HasOneFilename(h) ==
  /\ h # NoHeader
  /\ Cardinality({i \in 1..Len(h) : h[i] = "filename="}) = 1
  /\ LET v == Unquoted(SubSeq(h, FilenameAt(h) + 1, ValueEnd(h)))
     IN  Len(v) > 0 /\ \A i \in 1..Len(v) : v[i] \notin {"\"", "'"}

\* the trailing segment of a URL: what follows its last "/"
TrailingSegment(u) ==
  LET slashes == {i \in 1..Len(u) : u[i] = "/"}
  IN  IF slashes = {} THEN u
      ELSE SubSeq(u, (CHOOSE i \in slashes : \A j \in slashes : j <= i) + 1,
                  Len(u))

\* C30 as stated: a header that declares a filename gives that filename
\* without its quotes; without one the trailing URL segment is the name, with
\* the extension guessed from the declared content type added only when the
\* segment has no dot.
C30_FilenamePrecedence ==
  fn = "_get_file_name" =>
    LET h == fn_in.content_disposition
        seg == TrailingSegment(fn_in.url)
    IN  /\ HasOneFilename(h) => fn_out = DeclaredFilename(h)
        /\ (h = NoHeader \/ \A i \in 1..Len(h) : h[i] # "filename=") =>
             fn_out = IF \E i \in 1..Len(seg) : seg[i] = "."
                      THEN seg
                      ELSE seg \o _get_file_extension(fn_in.content_type)

\* ---------------------------------------------------------------------- C31
\* C31 as stated: whatever failed in the items before, an item's iteration
\* starts with the primary window open and current and no detail window left
\* open, and never more than two windows are open.
C31_PrimaryNeverClosed ==
  /\ Len(handles) <= 2
  /\ (pc = "item" /\ index < nItems) =>
       /\ cur # 0 /\ handles[cur] = "main"
       /\ Len(handles) = 1

\* ---------------------------------------------------------------------- C32
\* C32 as stated: the task ends Completed only if an AnalysisRecord for the
\* verdict was persisted and the Sample row of the test id is marked analysed
\* with it, also when a write to the analysis store failed.
C32_CompletedMeansPersisted ==
  (vt_pc = "done" /\ vt_outcome = "completed") =>
    /\ analysis_id # 0
    /\ \E a \in Range(analyses) : a.id = analysis_id
    /\ \E s \in Range(samples) :
         s.testid = test_id /\ s.analysed /\ s.analysis = analysis_id

\* ---------------------------------------------------------------------- C33
\* the archives an earlier crawl left in the folder: its Crack rows name them
FoundInFolder ==
  {cracks[r].archive : r \in {q \in 1..Len(cracks) : cracks[q].job # JobId}}

\* C33 as stated: after a crawl, every archive file the crawl left in the
\* download folder is the archive of exactly one Crack row of the job, also
\* when hashing or a database write failed after the download.
C33_EveryArchiveRecorded ==
  pc = "done" =>
    \A path \in files \ FoundInFolder :
      Cardinality({r \in 1..Len(cracks) :
                     cracks[r].job = JobId /\ cracks[r].archive = path}) = 1

\* ---------------------------------------------------------------------- C34
\* C34 as stated: crawl invocations that run in parallel on one download
\* folder never write to the same archive path: no two downloads that
\* returned an archive returned the same path.
C34_NoSharedArchivePath ==
  \A x, y \in dl_archives : x.path = y.path => x = y

\* ---------------------------------------------------------------------- C35
\* C35 as stated: whatever the interleaving of save_hashes calls on a readable
\* sink, every entry that a call reported as saved is present in the sink
\* with its digest. The runs looked at are those in which every read, open
\* and write of the sink file succeeded in full (faults = 0), with every call
\* over.
C35_NoSavedEntryLost ==
  ((\A c \in Callers : hs_pc[c] = "idle") /\ faults = 0) =>
    \A e \in hs_saved :
      \E i \in 1..Len(load(hs_text).data) : load(hs_text).data[i] = e

\* ---------------------------------------------------------------------- C36
\* C36: no connection is held by two users at once, and every connection
\* pyodbc.connect has made is at any time in exactly one place: held by one
\* user inside its with-block, cached once in the pool, or closed. A
\* connection whose with-block is over (however it ended, the finally clause
\* runs) has therefore been put back or closed, and not both or twice.
C36_OneHolderOneRelease ==
  /\ \A u, v \in Users : (po_conn[u] # 0 /\ po_conn[u] = po_conn[v]) => u = v
  /\ \A k \in 1..po_made :
       Cardinality({u \in Users : po_conn[u] = k})
         + Cardinality({i \in 1..Len(po_pool) : po_pool[i] = k})
         + (IF k \in po_closed THEN 1 ELSE 0) = 1
  /\ \A u \in Users : po_conn[u] \in 0..po_made
  /\ po_closed \subseteq 1..po_made

\* one more connection than the cache takes was made, one was closed on its
\* release because the cache was full, and a user holds a connection it took
\* from the cache again
C36_Witness ==
  /\ po_closed # {}
  /\ Len(po_pool) = pool_size - 1
  /\ Cardinality(InUse) = 1
  /\ po_made = pool_size + 1

\* ---------------------------------------------------------------------- C37
\* C37: every Error row references a Crack row of the job; Error rows are
\* only ever appended, and every Error row an iteration inserts references
\* the Crack row that the same iteration has just written for its item: an
\* iteration whose insert_crack failed inserts no Error row, and no Error row
\* references the Crack row of an earlier item. (The rows inserted are those
\* committed and those that wait for a commit.)
C37_ErrorsReferenceOwnCrack ==
  /\ [](\A i \in 1..Len(errors) :
          /\ errors[i].crack \in 1..Len(cracks)
          /\ cracks[errors[i].crack].job = JobId)
  /\ [][LET before == Seen(errors, pending.errors)
            after  == Seen(errors', pending'.errors)
        IN  /\ IsPrefix(errors, errors')
            /\ IsPrefix(before, after)
            /\ \A i \in (Len(before) + 1)..Len(after) :
                 /\ pc = "finally"
                 /\ Len(cracks') > Len(cracks)
                 /\ after[i].crack = cracks'[Len(cracks')].id
                 /\ cracks'[Len(cracks')].item = <<page, index + 1>>]_vars

\* the first item has its Crack row and no error; the second item failed and
\* its Error row references the second Crack row
C37_Witness ==
  /\ Len(cracks) = 2 /\ Len(errors) = 1
  /\ cracks[1].item = <<1, 1>> /\ cracks[2].item = <<1, 2>>
  /\ errors[1].crack = 2
  /\ Len(finished) = 2 /\ finished[1].stage = "success"

\* ---------------------------------------------------------------------- C38
\* the scanner's last answer is one that ends the task in failure: an upload
\* that was not accepted, or a status poll answered with an HTTP error or
\* with a body that lacks the expected keys
ScannerFailed ==
  IF polls = 0 THEN answer \in UploadAnswers \ {"ok"}
  ELSE answer \in {"http_error", "bad_format"}

\* C38 as stated: a progress update that raises never aborts the task: the
\* task ends Failed only when the scanner's answers make it fail.
C38_FailedUpdateNotFatal ==
  (vt_outcome = "failed") => ScannerFailed

\* ---------------------------------------------------------------------- C39
\* C39 as stated: when the statement insert_error executes fails with a
\* database or integrity error, insert_error raises nothing and returns None.
C39_InsertErrorReturnsNone ==
  (fn = "insert_error" /\ fn_in \in DatabaseErrors) =>
    fn_out = [kind |-> "returned", value |-> "None"]


====
